---------------------------- MODULE Spec2Model ----------------------------
(***************************************************************************)
(* A model of the modbus -> InfluxDB sampler (modbus.c, influx.c).         *)
(*                                                                         *)
(* Representation.                                                         *)
(*  - uint32_t / uint64_t values are bit vectors: sequences of 0/1, most   *)
(*    significant bit first, of length 32 / 64.  Shifts, casts and the     *)
(*    bitwise or are computed on the bits.                                 *)
(*  - Monotonic time is counted in ticks.  One microsecond is TicksPerUsec *)
(*    ticks and one second is UsecPerSec microseconds, so that the code's  *)
(*    literals 1000, 1000000 and 1000000000 become NSEC_PER_USEC,          *)
(*    USEC_PER_SEC and NSEC_PER_SEC below.  The widths of `long` and       *)
(*    `useconds_t` are scaled with the same factor.                        *)
(*  - Heap objects are reached through pointers, NULL or Ptr(v).  The     *)
(*    payload string is a sequence of tokens: a rendered line, a newline   *)
(*    or the text printf writes for a NULL string argument.                *)
(***************************************************************************)
EXTENDS Integers, Sequences, FiniteSets, TLC

(* Pointers: NULL, or a pointer to the value v *)
NULL == [null |-> TRUE]
Ptr(v) == [null |-> FALSE, v |-> v]

(***************************************************************************)
(* Bounds of the model.                                                    *)
(***************************************************************************)
TicksPerUsec == 2
UsecPerSec == 2
MaxStartSec == 5
HorizonSec == 11
MaxStallSec == 6
MaxPreempt == 2
MaxFaults == 1

(***************************************************************************)
(* Program constants.                                                      *)
(***************************************************************************)
INTERVAL == 5
WORD_BITS == 16

NSEC_PER_USEC == TicksPerUsec
USEC_PER_SEC == UsecPerSec
NSEC_PER_SEC == NSEC_PER_USEC * USEC_PER_SEC

(***************************************************************************)
(* Bit vectors.                                                            *)
(***************************************************************************)
Zeros(n) == [k \in 1..n |-> 0]

(* the w-bit vector of the natural number n, n < 2^w *)
RECURSIVE ToBits(_, _)
ToBits(n, w) == IF w = 0 THEN <<>> ELSE Append(ToBits(n \div 2, w - 1), n % 2)

(* the natural number of a bit vector (used on at most 31 significant bits) *)
RECURSIVE BitsToNat(_)
BitsToNat(b) ==
    IF Len(b) = 0 THEN 0
    ELSE 2 * BitsToNat(SubSeq(b, 1, Len(b) - 1)) + b[Len(b)]

(* (uintW_t) x : zero extension of a narrower unsigned value *)
ZeroExtend(b, w) == Zeros(w - Len(b)) \o b

(* x << k on a fixed width *)
ShiftLeft(b, k) == SubSeq(b, k + 1, Len(b)) \o Zeros(k)

(* x | y *)
BitOr(a, b) == [k \in 1..Len(a) |-> IF a[k] = 1 \/ b[k] = 1 THEN 1 ELSE 0]

(***************************************************************************)
(* Register Decoder.                                                       *)
(***************************************************************************)
(* a decoder that takes the least significant word first *)
regs2uint32_swapped(regs) ==
    LET up == ZeroExtend(ToBits(regs[2], WORD_BITS), 32)
        lo == ZeroExtend(ToBits(regs[1], WORD_BITS), 32)
    IN  BitOr(ShiftLeft(up, 16), lo)

(* 239-246 *)
regs2uint32(regs) ==
    LET up == ZeroExtend(ToBits(regs[1], WORD_BITS), 32)
        lo == ZeroExtend(ToBits(regs[2], WORD_BITS), 32)
    IN  BitOr(ShiftLeft(up, 16), lo)

(* 248-261 *)
regs2uint64(regs) ==
    LET ms   == ZeroExtend(ToBits(regs[1], WORD_BITS), 64)
        midl == ZeroExtend(ToBits(regs[2], WORD_BITS), 64)
        midr == ZeroExtend(ToBits(regs[3], WORD_BITS), 64)
        ls   == ZeroExtend(ToBits(regs[4], WORD_BITS), 64)
    IN  BitOr(BitOr(ShiftLeft(ms, 48), ShiftLeft(midl, 32)),
              BitOr(ShiftLeft(midr, 16), ShiftLeft(ls, 0)))


(***************************************************************************)
(* Field scaling: (double) (cast) raw / divisor.                           *)
(* An engineering value is kept as sign, magnitude (bit vector of the      *)
(* integer that is divided) and divisor.                                   *)
(***************************************************************************)
Invert(b) == [k \in 1..Len(b) |-> 1 - b[k]]

RECURSIVE AddOne(_)
AddOne(b) ==
    IF Len(b) = 0 THEN <<>>
    ELSE IF b[Len(b)] = 0 THEN SubSeq(b, 1, Len(b) - 1) \o <<1>>
    ELSE AddOne(SubSeq(b, 1, Len(b) - 1)) \o <<0>>

(* magnitude of a negative two's-complement value *)
TwosNegate(b) == AddOne(Invert(b))

SignedCasts == {"int32_t", "int64_t"}

Scale(raw, cast, div) ==
    LET neg == cast \in SignedCasts /\ raw[1] = 1
    IN  [neg |-> neg, mag |-> IF neg THEN TwosNegate(raw) ELSE raw, div |-> div]

(* The fields appended per device, in order: the array read (block), the  *)
(* array index, the cast applied and the divisor.                          *)
InstantFields ==
    << [name |-> "voltage_l1_n",  block |-> "instant", idx |-> 0,  cast |-> "uint32_t", div |-> 10],
       [name |-> "voltage_l2_n",  block |-> "instant", idx |-> 1,  cast |-> "uint32_t", div |-> 10],
       [name |-> "voltage_l3_n",  block |-> "instant", idx |-> 2,  cast |-> "uint32_t", div |-> 10],
       [name |-> "voltage_l1_l2", block |-> "instant", idx |-> 3,  cast |-> "uint32_t", div |-> 10],
       [name |-> "voltage_l3_l2", block |-> "instant", idx |-> 4,  cast |-> "uint32_t", div |-> 10],
       [name |-> "voltage_l1_l3", block |-> "instant", idx |-> 5,  cast |-> "uint32_t", div |-> 10],
       [name |-> "current_l1",    block |-> "instant", idx |-> 6,  cast |-> "uint32_t", div |-> 100],
       [name |-> "current_l2",    block |-> "instant", idx |-> 7,  cast |-> "uint32_t", div |-> 100],
       [name |-> "current_l3",    block |-> "instant", idx |-> 8,  cast |-> "uint32_t", div |-> 100],
       [name |-> "current_n",     block |-> "instant", idx |-> 9,  cast |-> "uint32_t", div |-> 100],
       [name |-> "active_tot",    block |-> "instant", idx |-> 10, cast |-> "int32_t",  div |-> 100],
       [name |-> "active_l1",     block |-> "instant", idx |-> 11, cast |-> "int32_t",  div |-> 100],
       [name |-> "active_l2",     block |-> "instant", idx |-> 12, cast |-> "int32_t",  div |-> 100],
       [name |-> "active_l3",     block |-> "instant", idx |-> 13, cast |-> "int32_t",  div |-> 100] >>

TotalFields ==
    << [name |-> "import",   block |-> "total", idx |-> 0,  cast |-> "uint64_t", div |-> 100],
       [name |-> "export",   block |-> "total", idx |-> 1,  cast |-> "uint64_t", div |-> 100],
       [name |-> "netto",    block |-> "total", idx |-> 2,  cast |-> "int64_t",  div |-> 100],
       [name |-> "currency", block |-> "total", idx |-> 13, cast |-> "uint64_t", div |-> 1000] >>

PhaseFields ==
    << [name |-> "import_l1", block |-> "phase", idx |-> 0, cast |-> "uint64_t", div |-> 100],
       [name |-> "import_l2", block |-> "phase", idx |-> 1, cast |-> "uint64_t", div |-> 100],
       [name |-> "import_l3", block |-> "phase", idx |-> 2, cast |-> "uint64_t", div |-> 100],
       [name |-> "export_l1", block |-> "phase", idx |-> 3, cast |-> "uint64_t", div |-> 100],
       [name |-> "export_l2", block |-> "phase", idx |-> 4, cast |-> "uint64_t", div |-> 100],
       [name |-> "export_l3", block |-> "phase", idx |-> 5, cast |-> "uint64_t", div |-> 100],
       [name |-> "netto_l1",  block |-> "phase", idx |-> 6, cast |-> "uint64_t", div |-> 100],
       [name |-> "netto_l2",  block |-> "phase", idx |-> 7, cast |-> "uint64_t", div |-> 100],
       [name |-> "netto_l3",  block |-> "phase", idx |-> 8, cast |-> "uint64_t", div |-> 100] >>

FieldMap == InstantFields \o TotalFields \o PhaseFields

(* The "type" column of the register tables in the comments of main: the  *)
(* array positions the meter documents as Signed.                          *)
RegisterMapSigned ==
    [ instant |-> {10, 11, 12, 13},
      total   |-> {2, 5, 8},
      phase   |-> {6, 7, 8} ]


(***************************************************************************)
(* State.                                                                  *)
(*   abi      width of `long` in the build: "LP64" or "ILP32"              *)
(*   clock    CLOCK_MONOTONIC_RAW, in ticks                                *)
(*   ts_next  main's ts_next, the Scheduled Instant                        *)
(*   now, d   locals of increment_time                                     *)
(*   diff, wait  locals of wait_until_and_increment (its clock reading is  *)
(*            kept in now as well)                                         *)
(*   then0, iters  history: ts_next on entry of increment_time and the     *)
(*            number of times its loop body has run in this invocation     *)
(*   pc       position of main                                             *)
(*   lines    main's payload buffer                                        *)
(*   i, rc, regs, instants, totals, phases   locals of the meter loop      *)
(*   reads    history: the register reads of this cycle, <<dev, block, rc>>*)
(*   sent, posts, ret  the payload handed to influx_writer_write in this   *)
(*            cycle, the number of transfers performed for it, its result  *)
(*   faults   number of failures the environment may still inject          *)
(*   call     a pure function applied to arguments: [fn, arg, res]         *)
(*   writer   the global Session pointer of modbus.c                       *)
(*   heap     the heap objects of the Session (ctx, curl, curlurl) and the *)
(*            bus handle mb: absent, or allocated and released n times     *)
(*   sigmask  the signals blocked in the process signal mask               *)
(*   old_sigset  local of influx_http_post                                 *)
(*   mask_in  history: the signal mask on entry of influx_http_post        *)
(*   pending  signals raised and not yet delivered                         *)
(*   handler  the stack of signal_handler invocations in progress          *)
(*   nsig     number of signals raised so far                              *)
(*   token    getenv("INFLUXDB_TOKEN")                                     *)
(*   zDEBUG   the build's zDEBUG (1 with -DDEBUG)                          *)
(*   data, headers  locals of influx_writer_write and influx_lines_post    *)
(*   httpheader  the CURLOPT_HTTPHEADER option held by the curl handle     *)
(*   log      history: what this cycle's write put on stderr               *)
(*   curlrc   history: how the last transfer ended, [rc, status, headers]  *)
(***************************************************************************)
VARIABLES abi, clock, ts_next, now, d, diff, wait, then0, iters, pc, lines,
          i, rc, regs, instants, totals, phases, reads, sent, posts, ret,
          faults, call,
          writer, heap, sigmask, old_sigset, mask_in, pending, handler, nsig,
          token, zDEBUG, data, headers, httpheader, log, curlrc,
          blocks, field_list, compacted, hist, upload

(* the state of the library called on its own: the heap blocks it holds,   *)
(* the caller's field list and compact array, the calls made so far, and   *)
(* the upload cursor of a request                                          *)
libVars == <<blocks, field_list, compacted, hist, upload>>

(* the state of main's loop *)
progVarsNoSess == <<abi, clock, ts_next, now, d, diff, wait, then0, iters, pc,
                    lines, i, rc, regs, instants, totals, phases, reads, sent,
                    posts, ret, faults, call, libVars>>

(* the Session, the signals and the write in progress *)
sessVars == <<writer, heap, sigmask, old_sigset, mask_in, pending, handler,
              nsig, token, zDEBUG, data, headers, httpheader, log, curlrc>>

vars == <<abi, clock, ts_next, now, d, diff, wait, then0, iters, pc, lines,
          i, rc, regs, instants, totals, phases, reads, sent, posts, ret,
          faults, call, sessVars, libVars>>

(* a signal is blocked by the mask of the process and, while its handler   *)
(* runs, by being the signal handled (sa_mask is empty, no SA_NODEFER)     *)
Blocked(s) == s \in sigmask \/ \E k \in DOMAIN handler : handler[k].sig = s

(* a pending signal that is not blocked is delivered before the process    *)
(* executes anything else                                                  *)
Deliverable == {s \in pending : ~Blocked(s)}

(* main runs while no signal handler is in progress or about to be *)
MainRuns == handler = <<>> /\ Deliverable = {}

timeVars == <<clock, ts_next, now, d, diff, wait, then0, iters>>
meterVars == <<i, rc, regs, instants, totals, phases>>
writeVars == <<sent, posts, ret>>

(***************************************************************************)
(* Scheduler.                                                              *)
(***************************************************************************)
(* C integer division and remainder (truncation toward zero), b > 0 *)
CDiv(a, b) == IF a >= 0 THEN a \div b ELSE -((-a) \div b)
CMod(a, b) == a - b * CDiv(a, b)

(* struct timespec of a clock value *)
Timespec(t) == [tv_sec |-> t \div NSEC_PER_SEC, tv_nsec |-> t % NSEC_PER_SEC]
Ticks(ts) == ts.tv_sec * NSEC_PER_SEC + ts.tv_nsec

(* LONG_MAX of a 32-bit long, 2147483647 ns, in ticks.  A 64-bit long     *)
(* holds 2^63 - 1 ns (292 years), beyond every instant of the model.       *)
LONG_MAX_32 == 2147483647 \div (1000000000 \div NSEC_PER_SEC)

LongFits(v) == abi = "LP64" \/ (v >= -LONG_MAX_32 - 1 /\ v <= LONG_MAX_32)

(* two's-complement reduction of v to the width of a 32-bit long *)
WrapLong(v) == ((v + LONG_MAX_32 + 1) % (2 * (LONG_MAX_32 + 1))) - LONG_MAX_32 - 1

(* a long computation: its value.  Where it overflows the behaviour is     *)
(* undefined: the build leaves the wrapped value or any other long, of     *)
(* which the most negative and the most positive stand for the rest.       *)
LongResult(ok, v) ==
    IF ok THEN {v} ELSE {WrapLong(v), -LONG_MAX_32 - 1, LONG_MAX_32}

(* computes a - b: the set of results the build can produce *)
ts_diff(a, b) ==
    LET diff_sec == a.tv_sec - b.tv_sec
        prod     == NSEC_PER_SEC * diff_sec
        sum      == prod + (a.tv_nsec - b.tv_nsec)
    IN  { [tv_sec |-> CDiv(n, NSEC_PER_SEC), tv_nsec |-> CMod(n, NSEC_PER_SEC)] :
            n \in LongResult(LongFits(diff_sec) /\ LongFits(prod) /\ LongFits(sum), sum) }

(* the loop condition of increment_time *)
Behind(dd) == dd.tv_sec < 0 \/ (dd.tv_sec = 0 /\ dd.tv_nsec < 0)

(* the loop body of increment_time, up to the recomputation of d *)
Advance(spec) ==
    [tv_nsec |-> 0,
     tv_sec  |-> IF CMod(spec.tv_sec, INTERVAL) = 0
                 THEN spec.tv_sec + INTERVAL
                 ELSE spec.tv_sec + CMod(spec.tv_sec, INTERVAL)]

(* useconds_t: unsigned, 32 bits; 2^32 in the scaled unit *)
USECONDS_MOD == 2 * (LONG_MAX_32 + 1)
CastUseconds(x) == x % USECONDS_MOD

(* wait = (useconds_t) diff.tv_sec * 1000000U + (useconds_t) diff.tv_nsec / 1000U *)
WaitOf(df) ==
    ( CastUseconds(df.tv_sec) * USEC_PER_SEC
      + CastUseconds(df.tv_nsec) \div NSEC_PER_USEC ) % USECONDS_MOD

Horizon == HorizonSec * NSEC_PER_SEC


(***************************************************************************)
(* Metric Builder and Line Encoder (influx.c), at the granularity of one   *)
(* outcome per call: ok is FALSE when a heap allocation in the call fails. *)
(***************************************************************************)
(* fstring("%d", i) and the like: a heap copy of the text, or NULL *)
fstring(text, ok) == IF ok THEN Ptr(text) ELSE NULL

influx_field_list_create(ok) == IF ok THEN Ptr(<<>>) ELSE NULL

(* the list after the call (main ignores the return value) *)
influx_field_list_append(lst, f, ok) ==
    IF lst = NULL \/ ~ok THEN lst ELSE Ptr(Append(lst.v, f))

influx_field_list_compact(lst, ok) ==
    IF lst = NULL \/ ~ok THEN NULL ELSE Ptr(lst.v)

(* the tags and fields that are rendered: empty names and values skipped *)
RECURSIVE RenderTags(_)
RenderTags(tags) ==
    IF tags = <<>> THEN <<>>
    ELSE IF Head(tags).name.v = "" \/ Head(tags).value.v = ""
         THEN RenderTags(Tail(tags))
         ELSE <<[name |-> Head(tags).name.v, value |-> Head(tags).value.v]>>
              \o RenderTags(Tail(tags))

RECURSIVE RenderFields(_)
RenderFields(fields) ==
    IF fields = <<>> THEN <<>>
    ELSE IF Head(fields).name = "" THEN RenderFields(Tail(fields))
         ELSE <<Head(fields)>> \o RenderFields(Tail(fields))

CRASH == [crash |-> TRUE]

(* alloc: "ok", "early" (timestamp, fieldstr or tagstr cannot be          *)
(* allocated) or "late" (an fstringa in or after the loops fails).         *)
(* A tag whose name or value pointer is NULL is dereferenced.              *)
influx_writer_line(measurement, tags, fields, alloc) ==
    IF tags = NULL \/ fields = NULL \/ measurement = NULL THEN NULL
    ELSE IF alloc = "early" THEN NULL
    ELSE IF \E k \in 1..Len(tags.v) : tags.v[k].name = NULL \/ tags.v[k].value = NULL
         THEN CRASH
    ELSE IF alloc = "late" THEN NULL
    ELSE Ptr([t |-> "line", measurement |-> measurement.v,
              tags |-> RenderTags(tags.v), fields |-> RenderFields(fields.v)])

NL == [t |-> "nl"]
NullText == [t |-> "(null)"]

(* lines = fstringa(lines, "%s%s", *lines ? "\n" : "", line);             *)
(*   lines NULL: *lines dereferences NULL.  line NULL: "%s" of NULL is     *)
(*   undefined; ub says what the build does, "text" or "crash".            *)
AddLine(ls, line, ok, ub) ==
    IF ls = CRASH \/ ls = NULL THEN CRASH
    ELSE IF line = NULL /\ ub = "crash" THEN CRASH
    ELSE IF ~ok THEN NULL
    ELSE Ptr(ls.v \o (IF ls.v = <<>> THEN <<>> ELSE <<NL>>)
                  \o <<IF line = NULL THEN NullText ELSE line.v>>)

(***************************************************************************)
(* The meter loop of main.                                                 *)
(***************************************************************************)
Meters == 1..3
Blocks == [ instant |-> [n |-> 28, width |-> 2],
            total   |-> [n |-> 56, width |-> 4],
            phase   |-> [n |-> 36, width |-> 4] ]

Zero == [kind |-> "zero"]
Stale == [kind |-> "stale"]
Fresh(dev, block) == [kind |-> "read", dev |-> dev, block |-> block]

(* uint32_t instants[16] = {0} and the like *)
ZeroArray == [j \in 0..15 |-> Zero]
Indeterminate == [kind |-> "indeterminate", n |-> 0]

(* what modbus_read_registers can return for a request of n registers *)
ReadResults(n) == {-1, 0, n - 1, n}

(* regs after the call: the first rc words are those of this read *)
RegsAfter(dev, block, r) ==
    IF r < 0 THEN Indeterminate
    ELSE [kind |-> "read", dev |-> dev, block |-> block, n |-> r]

(* a check that lets a short read through *)
ReadAcceptedShort(r, n) == r >= 0

(* if (rc == 28) ... else break *)
ReadAccepted(r, n) == r = n

(* for (j < n/width) arr[j] = regs2uintNN(&regs[j*width]) *)
Decode(rg, block) ==
    [j \in 0..15 |->
        IF j >= Blocks[block].n \div Blocks[block].width THEN Zero
        ELSE IF rg.kind = "read" /\ (j + 1) * Blocks[block].width <= rg.n
             THEN Fresh(rg.dev, rg.block)
             ELSE Stale]


(* The calls of the conversion block (lines 585-653) that allocate, in     *)
(* order: 3 list creations, fstring of the tag value, one append per       *)
(* field, 3 compactions, 3 line encodings (two allocation phases each) and *)
(* 3 fstringa on the payload.  F is the set of those that fail.            *)
NumFields == Len(FieldMap)
AllocPoints == 1..(4 + NumFields + 3 + 6 + 3)

(* the subsets of S with at most k elements *)
RECURSIVE SubsetsUpTo(_, _)
SubsetsUpTo(S, k) ==
    IF k = 0 THEN {{}}
    ELSE LET P == SubsetsUpTo(S, k - 1)
         IN  P \cup {T \cup {x} : T \in P, x \in S}

RECURSIVE AppendFields(_, _, _, _, _)
AppendFields(lst, fields, arr, base, F) ==
    IF fields = <<>> THEN lst
    ELSE AppendFields(
            influx_field_list_append(lst,
                [name |-> Head(fields).name, src |-> arr[Head(fields).idx]],
                (base + 1) \notin F),
            Tail(fields), arr, base + 1, F)

LineAlloc(F, early) ==
    IF early \in F THEN "early" ELSE IF (early + 1) \in F THEN "late" ELSE "ok"

(* the payload after the conversion block of meter dev, or CRASH *)
Convert(dev, ls, ins, tot, pha, F, ub) ==
    LET instant_fields == AppendFields(influx_field_list_create(1 \notin F),
                                       InstantFields, ins, 4, F)
        total_fields   == AppendFields(influx_field_list_create(2 \notin F),
                                       TotalFields, tot, 4 + Len(InstantFields), F)
        phase_fields   == AppendFields(influx_field_list_create(3 \notin F),
                                       PhaseFields, pha,
                                       4 + Len(InstantFields) + Len(TotalFields), F)
        tags == Ptr(<< [name |-> Ptr("meter"),
                        value |-> fstring(ToString(dev), 4 \notin F)] >>)
        c  == 4 + NumFields
        compact_instants == influx_field_list_compact(instant_fields, (c + 1) \notin F)
        compact_totals   == influx_field_list_compact(total_fields,   (c + 2) \notin F)
        compact_phases   == influx_field_list_compact(phase_fields,   (c + 3) \notin F)
        line_instant == influx_writer_line(Ptr("instant"), tags,
                                           compact_instants, LineAlloc(F, c + 4))
        line_total   == influx_writer_line(Ptr("accumulator_total"), tags,
                                           compact_totals, LineAlloc(F, c + 6))
        line_phase   == influx_writer_line(Ptr("accumulator_phase"), tags,
                                           compact_phases, LineAlloc(F, c + 8))
    IN  IF line_instant = CRASH \/ line_total = CRASH \/ line_phase = CRASH
        THEN CRASH
        ELSE AddLine(AddLine(AddLine(ls, line_instant, (c + 10) \notin F, ub),
                             line_total, (c + 11) \notin F, ub),
                     line_phase, (c + 12) \notin F, ub)

(***************************************************************************)
(* The Session (struct influx_writer) and the heap.                        *)
(***************************************************************************)
Absent == [st |-> "absent"]
(* an allocated object that has been released n times (0: live) *)
Obj(n) == [st |-> "alloc", released |-> n]

Release(o) == IF o = Absent THEN o ELSE Obj(o.released + 1)

QueryParams == <<"org", "bucket", "precision">>

(* the steps of influx_writer_create that can fail *)
CreateSteps == {"calloc", "curl_easy_init", "curl_url", "set_url", "set_path",
                "set_org", "set_bucket", "set_precision"}

(* curl_url_set(CURLUPART_QUERY, query, CURLU_APPENDQUERY): a NULL query   *)
(* removes the query of the URL and succeeds                               *)
AppendQuery(q, param, ok) == IF ok THEN Append(q, param) ELSE <<>>

(* influx_writer_create: stop is the step that fails ("none": none does),  *)
(* nomem the query strings fstring cannot allocate.  The result is the     *)
(* pointer returned and the heap objects of the Session after the call.    *)
influx_writer_create(stop, nomem) ==
    LET q1 == AppendQuery(<<>>, "org", "org" \notin nomem)
        q2 == AppendQuery(q1, "bucket", "bucket" \notin nomem)
        q3 == AppendQuery(q2, "precision", "precision" \notin nomem)
    IN  IF stop = "calloc"
        THEN [ptr |-> NULL, ctx |-> Absent, curl |-> Absent, curlurl |-> Absent]
        ELSE IF stop = "curl_easy_init"
        THEN [ptr |-> NULL, ctx |-> Obj(1), curl |-> Absent, curlurl |-> Absent]
        ELSE IF stop = "curl_url"
        THEN [ptr |-> NULL, ctx |-> Obj(1), curl |-> Obj(1), curlurl |-> Absent]
        ELSE IF stop \in CreateSteps
        THEN [ptr |-> NULL, ctx |-> Obj(1), curl |-> Obj(1), curlurl |-> Obj(1)]
        ELSE [ptr |-> Ptr([curl |-> Ptr("curl"), curlurl |-> Ptr("curlurl"), query |-> q3]),
              ctx |-> Obj(0), curl |-> Obj(0), curlurl |-> Obj(0)]

(* influx_writer_destroy(ctx) on heap h: curl_url_cleanup, curl_easy_cleanup, *)
(* free(ctx); nothing for NULL                                             *)
influx_writer_destroy(ctx, h) ==
    IF ctx = NULL THEN h
    ELSE [h EXCEPT !.curlurl = Release(@), !.curl = Release(@), !.ctx = Release(@)]

(* the Session of a run in which influx_writer_create succeeded *)
CreatedSession == influx_writer_create("none", {})

HeapOf(r, mb) == [ctx |-> r.ctx, curl |-> r.curl, curlurl |-> r.curlurl, mb |-> mb]

Signals == {"SIGINT", "SIGTERM"}

(* the values of the Session variables while no write is in progress *)
NoTransfer == [rc |-> "none", status |-> 0, headers |-> NULL]


(***************************************************************************)
(* Actions of main's loop.                                                 *)
(***************************************************************************)
Garbage == Ptr(<<[t |-> "garbage"]>>)
NoCall == [fn |-> "none", arg |-> <<>>, res |-> <<>>]
ZeroTime == [tv_sec |-> 0, tv_nsec |-> 0]

(* 413-417: the top of the loop, lines = malloc(sizeof(char)).  The clock *)
(* is read next in increment_time: dt is the time that has passed since    *)
(* the last sleep ended (the duration of the cycle before this one), up to *)
(* a stall of MaxStallSec.                                                 *)
AllocLines ==
    /\ MainRuns /\ pc = "alloc"
    /\ \E dt \in 0..(MaxStallSec * NSEC_PER_SEC) :
         /\ clock + dt <= Horizon
         /\ clock' = clock + dt
    /\ \E ok \in BOOLEAN :
         /\ ok \/ faults > 0
         /\ lines' = IF ok THEN Garbage ELSE NULL
         /\ faults' = IF ok THEN faults ELSE faults - 1
    /\ pc' = "inc_now"
    /\ UNCHANGED <<abi, ts_next, now, d, diff, wait, then0, iters, meterVars,
                   reads, writeVars, call, sessVars,
                   libVars>>

(* 337, 311-313: increment_time reads the clock and computes d *)
IncNow ==
    /\ MainRuns /\ pc = "inc_now"
    /\ now' = Timespec(clock)
    /\ d' \in ts_diff(ts_next, now')
    /\ then0' = ts_next
    /\ iters' = 0
    /\ pc' = "inc_loop"
    /\ UNCHANGED <<abi, clock, ts_next, diff, wait, lines, meterVars, reads,
                   writeVars, faults, call, sessVars,
                   libVars>>

(* 315-325: one iteration of the loop *)
IncAdvance ==
    /\ MainRuns /\ pc = "inc_loop"
    /\ Behind(d)
    /\ Advance(ts_next).tv_sec <= HorizonSec + INTERVAL
    /\ ts_next' = Advance(ts_next)
    /\ d' \in ts_diff(ts_next', now)
    /\ iters' = iters + 1
    /\ UNCHANGED <<abi, clock, now, diff, wait, then0, pc, lines, meterVars,
                   reads, writeVars, faults, call, sessVars,
                   libVars>>

(* 315: the loop ends, increment_time returns *)
IncDone ==
    /\ MainRuns /\ pc = "inc_loop"
    /\ ~Behind(d)
    /\ pc' = "wait_now"
    /\ UNCHANGED <<abi, timeVars, lines, meterVars, reads, writeVars, faults, call, sessVars,
                   libVars>>

(* 340-346: the second clock reading, dt ticks after the first, and wait *)
WaitNow ==
    /\ MainRuns /\ pc = "wait_now"
    /\ \E dt \in 0..MaxPreempt :
         /\ clock + dt <= Horizon
         /\ clock' = clock + dt
         /\ now' = Timespec(clock + dt)
    /\ diff' \in ts_diff(ts_next, now')
    /\ wait' = WaitOf(diff')
    /\ pc' = "sleep"
    /\ UNCHANGED <<abi, ts_next, d, then0, iters, lines, meterVars, reads,
                   writeVars, faults, call, sessVars,
                   libVars>>

(* 348: usleep(wait); wait_until_and_increment returns and its locals   *)
(* and those of increment_time are gone                                    *)
Sleep ==
    /\ MainRuns /\ pc = "sleep"
    /\ clock + wait * NSEC_PER_USEC <= Horizon
    /\ clock' = clock + wait * NSEC_PER_USEC
    /\ now' = ZeroTime /\ d' = ZeroTime /\ diff' = ZeroTime /\ wait' = 0
    /\ then0' = ZeroTime /\ iters' = 0
    /\ pc' = "check"
    /\ UNCHANGED <<abi, ts_next, lines, meterVars, reads, writeVars,
                   faults, call, sessVars,
                   libVars>>

(* 422-423: if (lines == NULL) continue *)
SkipCycle ==
    /\ MainRuns /\ pc = "check"
    /\ lines = NULL
    /\ pc' = "alloc"
    /\ UNCHANGED <<abi, timeVars, lines, meterVars, reads, writeVars, faults, call, sessVars,
                   libVars>>

(* 425-437: *lines = 0, flush, first meter *)
BeginCycle ==
    /\ MainRuns /\ pc = "check"
    /\ lines # NULL
    /\ lines' = Ptr(<<>>)
    /\ i' = 1
    /\ rc' = 0
    /\ instants' = ZeroArray
    /\ totals' = ZeroArray
    /\ phases' = ZeroArray
    /\ regs' = Indeterminate
    /\ reads' = <<>>
    /\ sent' = NULL
    /\ posts' = 0
    /\ ret' = 0
    /\ pc' = "read_instant"
    /\ UNCHANGED <<abi, timeVars, faults, call, sessVars,
                   libVars>>

(* a modbus_read_registers call and the checks that follow it *)
ReadBlock(block, arr, nextpc) ==
    \E r \in ReadResults(Blocks[block].n) :
       /\ r = Blocks[block].n \/ faults > 0
       /\ faults' = IF r = Blocks[block].n THEN faults ELSE faults - 1
       /\ rc' = r
       /\ regs' = RegsAfter(i, block, r)
       /\ reads' = Append(reads, <<i, block, r>>)
       /\ IF r >= 0 /\ ReadAccepted(r, Blocks[block].n)
          THEN /\ arr' = Decode(regs', block)
               /\ pc' = nextpc
          ELSE /\ arr' = arr
               /\ pc' = "deliver"

(* 463-478 *)
ReadInstants ==
    /\ MainRuns /\ pc = "read_instant"
    /\ ReadBlock("instant", instants, "read_total")
    /\ UNCHANGED <<abi, timeVars, lines, i, totals, phases, writeVars, call, sessVars,
                   libVars>>

(* 501-516 *)
ReadTotals ==
    /\ MainRuns /\ pc = "read_total"
    /\ ReadBlock("total", totals, "read_phase")
    /\ UNCHANGED <<abi, timeVars, lines, i, instants, phases, writeVars, call, sessVars,
                   libVars>>

(* 537-552 *)
ReadPhases ==
    /\ MainRuns /\ pc = "read_phase"
    /\ ReadBlock("phase", phases, "convert")
    /\ UNCHANGED <<abi, timeVars, lines, i, instants, totals, writeVars, call, sessVars,
                   libVars>>

(* 557-664: the conversion block, then the next meter *)
ConvertMeter ==
    /\ MainRuns /\ pc = "convert"
    /\ \E F \in SubsetsUpTo(AllocPoints, faults) : \E ub \in {"text", "crash"} :
         /\ Cardinality(F) <= faults
         /\ faults' = faults - Cardinality(F)
         /\ LET r == Convert(i, lines, instants, totals, phases, F, ub)
            IN  IF r = CRASH
                THEN /\ pc' = "crashed"
                     /\ UNCHANGED <<lines, i, instants, totals, phases, regs>>
                ELSE /\ lines' = r
                     /\ IF i < 3
                        THEN /\ i' = i + 1
                             /\ pc' = "read_instant"
                        ELSE /\ i' = i
                             /\ pc' = "deliver"
                     /\ instants' = ZeroArray
                     /\ totals' = ZeroArray
                     /\ phases' = ZeroArray
                     /\ regs' = Indeterminate
    /\ UNCHANGED <<abi, timeVars, rc, reads, writeVars, call, sessVars,
                   libVars>>


(* influx_writer_write(writer, {lines, NULL}, NULL): result and number of  *)
(* transfers performed (curl_easy_perform), for each way the call can go.  *)
WriteOutcomes ==
    { [why |-> "ok",         ret |-> 0,   performed |-> 1, alloc |-> FALSE],
      [why |-> "http",       ret |-> 401, performed |-> 1, alloc |-> FALSE],
      [why |-> "http",       ret |-> 500, performed |-> 1, alloc |-> FALSE],
      [why |-> "transport",  ret |-> -1,  performed |-> 1, alloc |-> FALSE],
      [why |-> "setopt",     ret |-> -1,  performed |-> 0, alloc |-> FALSE],
      [why |-> "nomem_data", ret |-> -1,  performed |-> 0, alloc |-> TRUE],
      [why |-> "nomem_auth", ret |-> -1,  performed |-> 0, alloc |-> TRUE] }

(* 669-676.  With lines == NULL no data is built and influx_http_post      *)
(* takes strlen(NULL), unless the header allocation fails first.           *)
Deliver ==
    /\ MainRuns /\ pc = "deliver"
    /\ \E o \in WriteOutcomes :
         /\ o.alloc => faults > 0
         /\ lines = NULL => o.why # "nomem_data"
         /\ faults' = IF o.alloc THEN faults - 1 ELSE faults
         /\ sent' = lines
         /\ IF lines = NULL /\ o.why # "nomem_auth"
            THEN /\ pc' = "crashed"
                 /\ UNCHANGED <<posts, ret>>
            ELSE /\ posts' = posts + o.performed
                 /\ ret' = o.ret
                 /\ pc' = "free"
    /\ UNCHANGED <<abi, timeVars, lines, meterVars, reads, call, sessVars,
                   libVars>>

(* 678: free(lines); the locals of the loop body go out of scope *)
FreeLines ==
    /\ MainRuns /\ pc = "free"
    /\ lines' = NULL
    /\ i' = 1 /\ rc' = 0 /\ regs' = Indeterminate
    /\ instants' = ZeroArray /\ totals' = ZeroArray /\ phases' = ZeroArray
    /\ reads' = <<>>
    /\ sent' = NULL
    /\ posts' = 0
    /\ ret' = 0
    /\ log' = {} /\ curlrc' = NoTransfer
    /\ pc' = "alloc"
    /\ UNCHANGED <<abi, timeVars, faults, call, writer, heap, sigmask,
                   old_sigset, mask_in, pending, handler, nsig, token, zDEBUG,
                   data, headers, httpheader,
                   libVars>>


(* the library not called on its own *)
NoUpload == [mem |-> 0, len |-> 0]
LibIdle ==
    /\ blocks = <<>> /\ field_list = NULL /\ compacted = NULL
    /\ hist = <<>> /\ upload = NoUpload


(* main before the loop: ts_next is the clock at line 395, the loop is     *)
(* entered up to a tick later                                              *)
Init ==
    /\ abi \in {"LP64", "ILP32"}
    /\ \E t0 \in 0..(MaxStartSec * NSEC_PER_SEC - 1) : \E e \in 0..1 :
         /\ ts_next = Timespec(t0)
         /\ clock = t0 + e
    /\ now = ZeroTime /\ d = ZeroTime /\ diff = ZeroTime /\ wait = 0
    /\ then0 = ZeroTime /\ iters = 0
    /\ pc = "alloc"
    /\ lines = NULL
    /\ i = 1 /\ rc = 0
    /\ regs = Indeterminate
    /\ instants = ZeroArray /\ totals = ZeroArray /\ phases = ZeroArray
    /\ reads = <<>>
    /\ sent = NULL /\ posts = 0 /\ ret = 0
    /\ faults = MaxFaults
    /\ call = NoCall
    /\ writer = CreatedSession.ptr
    /\ heap = HeapOf(CreatedSession, Obj(0))
    /\ sigmask = {} /\ old_sigset = {} /\ mask_in = {}
    /\ pending = {} /\ handler = <<>> /\ nsig = 0
    /\ token = Ptr("secret")
    /\ zDEBUG = 0
    /\ data = NULL /\ headers = NULL /\ httpheader = NULL
    /\ log = {} /\ curlrc = NoTransfer
    /\ LibIdle

Next ==
    \/ AllocLines
    \/ IncNow
    \/ IncAdvance
    \/ IncDone
    \/ WaitNow
    \/ Sleep
    \/ SkipCycle
    \/ BeginCycle
    \/ ReadInstants
    \/ ReadTotals
    \/ ReadPhases
    \/ ConvertMeter
    \/ Deliver
    \/ FreeLines

Spec == Init /\ [][Next]_vars


(***************************************************************************)
(* The write of a cycle, step by step: influx_writer_write,                *)
(* influx_lines_post and influx_http_post (influx.c), as called at         *)
(* modbus.c 669-676.  An allocation in these functions may fail whenever   *)
(* it is made.                                                             *)
(***************************************************************************)
DANGLING == [dangling |-> TRUE]

(* slist_append (480-500): the list with h appended; when the append       *)
(* fails the list is freed and the result is NULL                          *)
slist_append(s, h, ok) ==
    IF ~ok THEN NULL ELSE Ptr(Append(IF s = NULL THEN <<>> ELSE s.v, h))

AuthHeader(secret) == [name |-> "Authorization", value |-> <<"Token", secret>>]
AcceptHeader == [name |-> "Accept", value |-> "application/json"]
ContentTypeHeader == [name |-> "Content-Type", value |-> "text/plain; charset=utf-8"]

(* the status codes a server may answer with *)
Statuses == {204, 302, 401, 500}

(* curl_easy_perform with CURLOPT_FAILONERROR: how the transfer ends when  *)
(* the server answers with status                                          *)
PerformResult(status) ==
    IF status >= 400 THEN "CURLE_HTTP_RETURNED_ERROR" ELSE "CURLE_OK"

(* a retval that reports an HTTP error as a local failure *)
RetvalOfLocal(r, status) == IF r = "CURLE_OK" THEN 0 ELSE -1

(* 604-627: the switch on the result of curl_easy_perform *)
RetvalOf(r, status) ==
    IF r = "CURLE_OK" THEN 0
    ELSE IF r = "CURLE_HTTP_RETURNED_ERROR" THEN status
    ELSE -1

(* a block that leaves the mask as it is *)
BlockNone(mask) == mask

(* sigfillset(&all_sigset); sigprocmask(SIG_BLOCK, &all_sigset, ...) *)
BlockAll(mask) == mask \cup Signals

(* a restore that clears the mask *)
RestoreEmpty(old) == {}

(* sigprocmask(SIG_SETMASK, &old_sigset, NULL) *)
RestoreMask(old) == old

(* influx_writer_write 702-717: data = fstringa(data, "%s\n", lines[i])   *)
(* over l = {lines, NULL}                                                  *)
WriteData ==
    /\ MainRuns /\ pc = "deliver"
    /\ sent' = lines
    /\ log' = {} /\ curlrc' = NoTransfer
    /\ \E ok \in BOOLEAN :
         IF lines = NULL
         THEN data' = NULL /\ pc' = "w_post" /\ ret' = ret
         ELSE IF ok
         THEN data' = Ptr(lines.v \o <<NL>>) /\ pc' = "w_post" /\ ret' = ret
         ELSE data' = NULL /\ pc' = "w_ret" /\ ret' = -1
    /\ UNCHANGED <<abi, timeVars, lines, meterVars, reads, posts, faults, call,
                   writer, heap, sigmask, old_sigset, mask_in, pending, handler,
                   nsig, token, zDEBUG, headers, httpheader,
                   libVars>>

(* influx_lines_post 664-681: the header list *)
PostHeaders ==
    /\ MainRuns /\ pc = "w_post"
    /\ \E a1, a2, f, a3 \in BOOLEAN :
         LET h1 == slist_append(NULL, AcceptHeader, a1)
             h2 == slist_append(h1, ContentTypeHeader, a2)
         IN  IF token = NULL
             THEN headers' = h2 /\ pc' = "h_enter" /\ ret' = ret /\ data' = data
             ELSE IF ~f
             THEN headers' = NULL /\ pc' = "w_ret" /\ ret' = -1 /\ data' = NULL
             ELSE /\ headers' = slist_append(h2, AuthHeader(token.v), a3)
                  /\ pc' = "h_enter" /\ ret' = ret /\ data' = data
    /\ UNCHANGED <<abi, timeVars, lines, meterVars, reads, sent, posts, faults,
                   call, writer, heap, sigmask, old_sigset, mask_in, pending,
                   handler, nsig, token, zDEBUG, httpheader, log, curlrc,
                   libVars>>

(* influx_http_post 521-548: strlen(lines), the argument check, and the    *)
(* signal mask saved and all signals blocked                               *)
PostEnter ==
    /\ MainRuns /\ pc = "h_enter"
    /\ IF data = NULL
       THEN /\ pc' = "crashed"
            /\ UNCHANGED <<ret, sigmask, old_sigset>>
       ELSE IF writer = NULL
       THEN /\ pc' = "w_free" /\ ret' = -1
            /\ UNCHANGED <<sigmask, old_sigset>>
       ELSE /\ old_sigset' = sigmask
            /\ sigmask' = BlockAll(sigmask)
            /\ ret' = -1
            /\ pc' = "h_setopt"
    /\ mask_in' = sigmask
    /\ UNCHANGED <<abi, timeVars, lines, meterVars, reads, sent, posts, faults,
                   call, writer, heap, pending, handler, nsig, token, zDEBUG,
                   data, headers, httpheader, log, curlrc,
                   libVars>>

(* 550-598, 634-636: the options; CURLOPT_HTTPHEADER is set only for a    *)
(* non-NULL list and otherwise stays what an earlier call left in the      *)
(* handle                                                                  *)
PostSetopt ==
    /\ MainRuns /\ pc = "h_setopt"
    /\ \E ok \in BOOLEAN :
         IF writer.v.curl = NULL
         THEN /\ httpheader' = httpheader
              /\ log' = log \cup {"libcurl not initialized"}
              /\ pc' = "h_restore"
         ELSE IF ok
         THEN /\ httpheader' = IF headers # NULL THEN headers ELSE httpheader
              /\ log' = log
              /\ pc' = "h_perform"
         ELSE /\ httpheader' = httpheader
              /\ log' = log \cup {"curl_easy_setopt"}
              /\ pc' = "h_restore"
    /\ UNCHANGED <<abi, timeVars, lines, meterVars, reads, writeVars, faults,
                   call, writer, heap, sigmask, old_sigset, mask_in, pending,
                   handler, nsig, token, zDEBUG, data, headers, curlrc,
                   libVars>>

(* 599-630: curl_easy_perform and the switch on its result.  A header      *)
(* list that was freed is read by the transfer: it crashes or goes on.     *)
PostPerform ==
    /\ MainRuns /\ pc = "h_perform"
    /\ \E crash \in BOOLEAN : \E r \in {"answer", "CURLE_COULDNT_CONNECT"} :
       \E status \in Statuses :
         IF httpheader = DANGLING /\ crash
         THEN /\ pc' = "crashed"
              /\ UNCHANGED <<posts, ret, log, curlrc>>
         ELSE LET res == IF r = "answer" THEN PerformResult(status) ELSE r
                  st  == IF r = "answer" THEN status ELSE 0
              IN  /\ posts' = posts + 1
                  /\ curlrc' = [rc |-> res, status |-> st, headers |-> httpheader]
                  /\ ret' = RetvalOf(res, st)
                  /\ log' = log
                            \cup (IF zDEBUG = 1 THEN {"verbose"} ELSE {})
                            \cup (IF res \notin {"CURLE_OK", "CURLE_HTTP_RETURNED_ERROR"}
                                  THEN {"curl_easy_perform"} ELSE {})
                  /\ pc' = "h_restore"
    /\ UNCHANGED <<abi, timeVars, lines, meterVars, reads, sent, faults, call,
                   writer, heap, sigmask, old_sigset, mask_in, pending, handler,
                   nsig, token, zDEBUG, data, headers, httpheader,
                   libVars>>

(* 638-641: the signal mask restored, influx_http_post returns *)
PostRestore ==
    /\ MainRuns /\ pc = "h_restore"
    /\ sigmask' = RestoreMask(old_sigset)
    /\ pc' = "w_free"
    /\ UNCHANGED <<abi, timeVars, lines, meterVars, reads, writeVars, faults,
                   call, writer, heap, old_sigset, mask_in, pending, handler,
                   nsig, token, zDEBUG, data, headers, httpheader, log, curlrc,
                   libVars>>

(* a write step that gives the transport handle back after the request *)
PostFreeCleanup ==
    /\ MainRuns /\ pc = "w_free"
    /\ heap' = [heap EXCEPT !.curl = Release(@)]
    /\ httpheader' = IF httpheader # NULL /\ httpheader = headers
                     THEN DANGLING ELSE httpheader
    /\ headers' = NULL
    /\ data' = NULL
    /\ pc' = "w_ret"
    /\ UNCHANGED <<abi, timeVars, lines, meterVars, reads, writeVars, faults,
                   call, writer, sigmask, old_sigset, mask_in, pending,
                   handler, nsig, token, zDEBUG, log, curlrc,
                   libVars>>

(* 685, 721: curl_slist_free_all(headers), free(data); the handle keeps    *)
(* the pointer to the freed list                                           *)
PostFree ==
    /\ MainRuns /\ pc = "w_free"
    /\ httpheader' = IF httpheader # NULL /\ httpheader = headers
                     THEN DANGLING ELSE httpheader
    /\ headers' = NULL
    /\ data' = NULL
    /\ pc' = "w_ret"
    /\ UNCHANGED <<abi, timeVars, lines, meterVars, reads, writeVars, faults,
                   call, writer, heap, sigmask, old_sigset, mask_in, pending,
                   handler, nsig, token, zDEBUG, log, curlrc,
                   libVars>>

(* a return to main that submits the payload again after a failure *)
WriteReturnRetry ==
    /\ MainRuns /\ pc = "w_ret"
    /\ log' = IF ret < 0 THEN log \cup {"perror"} ELSE log
    /\ pc' = IF ret # 0 /\ posts < 2 THEN "deliver" ELSE "free"
    /\ UNCHANGED <<abi, timeVars, lines, meterVars, reads, writeVars, faults,
                   call, writer, heap, sigmask, old_sigset, mask_in, pending,
                   handler, nsig, token, zDEBUG, data, headers, httpheader,
                   curlrc,
                   libVars>>

(* a return to main that gives up after a failed write *)
WriteReturnExit ==
    /\ MainRuns /\ pc = "w_ret"
    /\ log' = IF ret < 0 THEN log \cup {"perror"} ELSE log
    /\ pc' = IF ret # 0 THEN "exited" ELSE "free"
    /\ UNCHANGED <<abi, timeVars, lines, meterVars, reads, writeVars, faults,
                   call, writer, heap, sigmask, old_sigset, mask_in, pending,
                   handler, nsig, token, zDEBUG, data, headers, httpheader,
                   curlrc,
                   libVars>>

(* modbus.c 672-676: if (ret < 0) perror("influx_writer_write") *)
WriteReturn ==
    /\ MainRuns /\ pc = "w_ret"
    /\ log' = IF ret < 0 THEN log \cup {"perror"} ELSE log
    /\ pc' = "free"
    /\ UNCHANGED <<abi, timeVars, lines, meterVars, reads, writeVars, faults,
                   call, writer, heap, sigmask, old_sigset, mask_in, pending,
                   handler, nsig, token, zDEBUG, data, headers, httpheader,
                   curlrc,
                   libVars>>


(***************************************************************************)
(* Start-up and termination: the creation of the Session (modbus.c         *)
(* 403-411) and the handler of SIGINT and SIGTERM (modbus.c 269-284,       *)
(* installed at 355-371 with an empty sa_mask).                            *)
(***************************************************************************)
MaxSignals == 2

Running == pc \notin {"exited", "crashed"}

(* 403-411: writer = influx_writer_create(...); on NULL the Modbus         *)
(* context is closed and freed and main returns                            *)
CreateWriter ==
    /\ MainRuns /\ pc = "create"
    /\ \E stop \in CreateSteps \cup {"none"} : \E nomem \in SUBSET {"org", "bucket", "precision"} :
         LET r == influx_writer_create(stop, nomem)
         IN  /\ writer' = r.ptr
             /\ IF r.ptr = NULL
                THEN /\ heap' = HeapOf(r, Release(heap.mb))
                     /\ log' = {"perror"}
                     /\ pc' = "exited"
                ELSE /\ heap' = HeapOf(r, heap.mb)
                     /\ log' = log
                     /\ pc' = "alloc"
    /\ UNCHANGED <<abi, timeVars, lines, meterVars, reads, writeVars, faults,
                   call, sigmask, old_sigset, mask_in, pending, handler, nsig,
                   token, zDEBUG, data, headers, httpheader, curlrc,
                   libVars>>

(* a signal is sent to the process *)
Raise ==
    /\ Running /\ nsig < MaxSignals
    /\ \E s \in Signals : pending' = pending \cup {s}
    /\ nsig' = nsig + 1
    /\ UNCHANGED <<progVarsNoSess, writer, heap, sigmask, old_sigset, mask_in,
                   handler, token, zDEBUG, data, headers, httpheader, log,
                   curlrc>>

(* the kernel delivers a pending signal that is not blocked: main, or the  *)
(* handler in progress, is interrupted                                     *)
HandlerEnter ==
    /\ Running
    /\ \E s \in Deliverable :
         /\ pending' = pending \ {s}
         /\ handler' = Append(handler, [sig |-> s, hpc |-> "destroy"])
    /\ UNCHANGED <<progVarsNoSess, writer, heap, sigmask, old_sigset, mask_in,
                   nsig, token, zDEBUG, data, headers, httpheader, log, curlrc>>

Top == handler[Len(handler)]

HandlerAt(l) == Running /\ handler # <<>> /\ Deliverable = {} /\ Top.hpc = l

HandlerGoto(l) == [handler EXCEPT ![Len(handler)].hpc = l]

(* 278: influx_writer_destroy(writer).  The global still points at a       *)
(* Session that was destroyed before: its fields are read after free and   *)
(* freed again, or the allocator aborts                                    *)
HandlerDestroy ==
    /\ HandlerAt("destroy")
    /\ \E abort \in BOOLEAN :
         IF writer # NULL /\ heap.ctx.released > 0 /\ abort
         THEN pc' = "crashed" /\ heap' = heap /\ handler' = handler
         ELSE /\ heap' = influx_writer_destroy(writer, heap)
              /\ handler' = HandlerGoto("modbus")
              /\ pc' = pc
    /\ UNCHANGED <<abi, timeVars, lines, meterVars, reads, writeVars, faults,
                   call, writer, sigmask, old_sigset, mask_in, pending, nsig,
                   token, zDEBUG, data, headers, httpheader, log, curlrc,
                   libVars>>

(* 279-281: modbus_close(mb); modbus_free(mb); exit(EXIT_FAILURE).  A      *)
(* context that was freed before is used and freed again, or the           *)
(* allocator aborts                                                        *)
HandlerExit ==
    /\ HandlerAt("modbus")
    /\ \E abort \in BOOLEAN :
         IF heap.mb.released > 0 /\ abort
         THEN pc' = "crashed" /\ heap' = heap
         ELSE /\ heap' = [heap EXCEPT !.mb = Release(@)]
              /\ pc' = "exited"
    /\ UNCHANGED <<abi, timeVars, lines, meterVars, reads, writeVars, faults,
                   call, writer, sigmask, old_sigset, mask_in, pending, handler,
                   nsig, token, zDEBUG, data, headers, httpheader, log, curlrc,
                   libVars>>

(* the clock reading of line 395, in ticks *)
StartSession == 8 * NSEC_PER_SEC

(* the process from the creation of the Session on.  The signal mask is    *)
(* inherited from the parent, INFLUXDB_TOKEN may be set or not, DEBUG is   *)
(* chosen at build time.                                                   *)
InitSession ==
    /\ abi = "LP64"
    /\ ts_next = Timespec(StartSession) /\ clock = StartSession
    /\ now = ZeroTime /\ d = ZeroTime /\ diff = ZeroTime /\ wait = 0
    /\ then0 = ZeroTime /\ iters = 0
    /\ pc = "create"
    /\ lines = NULL
    /\ i = 1 /\ rc = 0
    /\ regs = Indeterminate
    /\ instants = ZeroArray /\ totals = ZeroArray /\ phases = ZeroArray
    /\ reads = <<>>
    /\ sent = NULL /\ posts = 0 /\ ret = 0
    /\ faults = 0
    /\ call = NoCall
    /\ writer = NULL
    /\ heap = [ctx |-> Absent, curl |-> Absent, curlurl |-> Absent, mb |-> Obj(0)]
    /\ sigmask \in {{}, {"SIGINT"}}
    /\ old_sigset = {} /\ mask_in = {}
    /\ pending = {} /\ handler = <<>> /\ nsig = 0
    /\ token \in {NULL, Ptr("secret")}
    /\ zDEBUG \in {0, 1}
    /\ data = NULL /\ headers = NULL /\ httpheader = NULL
    /\ log = {} /\ curlrc = NoTransfer
    /\ LibIdle

NextSession ==
    \/ CreateWriter
    \/ AllocLines
    \/ IncNow
    \/ IncAdvance
    \/ IncDone
    \/ WaitNow
    \/ Sleep
    \/ BeginCycle
    \/ ReadInstants
    \/ ReadTotals
    \/ ReadPhases
    \/ ConvertMeter
    \/ WriteData
    \/ PostHeaders
    \/ PostEnter
    \/ PostSetopt
    \/ PostPerform
    \/ PostRestore
    \/ PostFree
    \/ WriteReturn
    \/ FreeLines
    \/ Raise
    \/ HandlerEnter
    \/ HandlerDestroy
    \/ HandlerExit

SpecSession == InitSession /\ [][NextSession]_vars


(***************************************************************************)
(* The loop of main on its own, from its first iteration, with the write   *)
(* step by step and no signal sent.  The process is scheduled: a step     *)
(* that can be taken is eventually taken.                                  *)
(***************************************************************************)
(* the clock reading of line 395, in ticks *)
StartLoop == 10 * NSEC_PER_SEC

InitLoop ==
    /\ abi \in {"LP64", "ILP32"}
    /\ ts_next = Timespec(StartLoop) /\ clock = StartLoop
    /\ now = ZeroTime /\ d = ZeroTime /\ diff = ZeroTime /\ wait = 0
    /\ then0 = ZeroTime /\ iters = 0
    /\ pc = "alloc"
    /\ lines = NULL
    /\ i = 1 /\ rc = 0
    /\ regs = Indeterminate
    /\ instants = ZeroArray /\ totals = ZeroArray /\ phases = ZeroArray
    /\ reads = <<>>
    /\ sent = NULL /\ posts = 0 /\ ret = 0
    /\ faults = MaxFaults
    /\ call = NoCall
    /\ writer = CreatedSession.ptr
    /\ heap = HeapOf(CreatedSession, Obj(0))
    /\ sigmask = {} /\ old_sigset = {} /\ mask_in = {}
    /\ pending = {} /\ handler = <<>> /\ nsig = 0
    /\ token = Ptr("secret")
    /\ zDEBUG = 0
    /\ data = NULL /\ headers = NULL /\ httpheader = NULL
    /\ log = {} /\ curlrc = NoTransfer
    /\ LibIdle

(* the steps of the loop other than the conversion block *)
LoopSteps ==
    \/ AllocLines
    \/ IncNow
    \/ IncAdvance
    \/ IncDone
    \/ WaitNow
    \/ Sleep
    \/ SkipCycle
    \/ BeginCycle
    \/ ReadInstants
    \/ ReadTotals
    \/ ReadPhases
    \/ WriteData
    \/ PostHeaders
    \/ PostEnter
    \/ PostSetopt
    \/ PostPerform
    \/ PostRestore
    \/ PostFree
    \/ WriteReturn
    \/ FreeLines

NextLoop ==
    \/ AllocLines
    \/ IncNow
    \/ IncAdvance
    \/ IncDone
    \/ WaitNow
    \/ Sleep
    \/ SkipCycle
    \/ BeginCycle
    \/ ReadInstants
    \/ ReadTotals
    \/ ReadPhases
    \/ ConvertMeter
    \/ WriteData
    \/ PostHeaders
    \/ PostEnter
    \/ PostSetopt
    \/ PostPerform
    \/ PostRestore
    \/ PostFree
    \/ WriteReturn
    \/ FreeLines

(* ConvertMeter is the one step possible where pc = "convert", and it is    *)
(* always possible there: that it is eventually taken is that pc does not  *)
(* stay "convert"                                                          *)
SpecLoop ==
    /\ InitLoop /\ [][NextLoop]_vars
    /\ WF_vars(LoopSteps)
    /\ []<>(pc # "convert")


(***************************************************************************)
(* The Register Decoder and the field scaling on their own: the functions  *)
(* applied to register words drawn from WordSamples.                       *)
(***************************************************************************)
WordSamples == {0, 1, 4660, 32768, 65535}

progVars == <<abi, clock, ts_next, now, d, diff, wait, then0, iters, pc, lines,
              i, rc, regs, instants, totals, phases, reads, sent, posts, ret,
              faults, sessVars>>

(* instants[j] = regs2uint32(&regs[j*2]) *)
CallRegs2uint32 ==
    /\ pc = "decode" /\ call = NoCall
    /\ \E w \in [1..2 -> WordSamples] :
         call' = [fn |-> "regs2uint32", arg |-> w, res |-> regs2uint32(w)]
    /\ UNCHANGED <<progVars, libVars>>

(* totals[j] = regs2uint64(&regs[j*4]) *)
CallRegs2uint64 ==
    /\ pc = "decode" /\ call = NoCall
    /\ \E w \in [1..4 -> WordSamples] :
         call' = [fn |-> "regs2uint64", arg |-> w, res |-> regs2uint64(w)]
    /\ UNCHANGED <<progVars, libVars>>

(* field k of FieldMap: its registers decoded, and the decoded value cast  *)
(* and divided as the append of that field does                            *)
CallField ==
    /\ pc = "decode" /\ call = NoCall
    /\ \E k \in 1..NumFields :
         \E w \in [1..Blocks[FieldMap[k].block].width -> WordSamples] :
            LET raw == IF Blocks[FieldMap[k].block].width = 2
                       THEN regs2uint32(w) ELSE regs2uint64(w)
            IN  call' = [fn |-> "field", arg |-> <<k, w>>,
                         res |-> Scale(raw, FieldMap[k].cast, FieldMap[k].div)]
    /\ UNCHANGED <<progVars, libVars>>

InitDecode ==
    /\ abi = "LP64"
    /\ clock = 0 /\ ts_next = ZeroTime
    /\ now = ZeroTime /\ d = ZeroTime /\ diff = ZeroTime /\ wait = 0
    /\ then0 = ZeroTime /\ iters = 0
    /\ pc = "decode"
    /\ lines = NULL
    /\ i = 1 /\ rc = 0
    /\ regs = Indeterminate
    /\ instants = ZeroArray /\ totals = ZeroArray /\ phases = ZeroArray
    /\ reads = <<>>
    /\ sent = NULL /\ posts = 0 /\ ret = 0
    /\ faults = 0
    /\ call = NoCall
    /\ writer = NULL
    /\ heap = [ctx |-> Absent, curl |-> Absent, curlurl |-> Absent, mb |-> Absent]
    /\ sigmask = {} /\ old_sigset = {} /\ mask_in = {}
    /\ pending = {} /\ handler = <<>> /\ nsig = 0
    /\ token = NULL
    /\ zDEBUG = 0
    /\ data = NULL /\ headers = NULL /\ httpheader = NULL
    /\ log = {} /\ curlrc = NoTransfer
    /\ LibIdle

NextDecode ==
    \/ CallRegs2uint32
    \/ CallRegs2uint64
    \/ CallField

SpecDecode == InitDecode /\ [][NextDecode]_vars


(***************************************************************************)
(* Properties.                                                             *)
(***************************************************************************)
(* the bit vector whose 16-bit words, most significant first, are w: the   *)
(* binary numeral of w[1]*2^(16*(n-1)) + ... + w[n]                        *)
RECURSIVE Concat(_)
Concat(w) ==
    IF w = <<>> THEN <<>> ELSE ToBits(Head(w), WORD_BITS) \o Concat(Tail(w))

Ones(n) == [k \in 1..n |-> 1]

(* C6: regs2uint32 of (w0, w1) is w0*2^16 + w1 and regs2uint64 of          *)
(* (w0, w1, w2, w3) is w0*2^48 + w1*2^32 + w2*2^16 + w3, most significant  *)
(* word first, for all words; (0,0) gives 0 and (0xFFFF,0xFFFF) gives      *)
(* 0xFFFFFFFF.  The numeral is compared bit by bit, and as a number where  *)
(* it is below 2^31.                                                       *)
C6_Decode ==
    /\ call.fn = "regs2uint32" =>
         /\ Len(call.res) = 32
         /\ call.res = Concat(call.arg)
         /\ call.arg[1] < 32768 =>
              BitsToNat(call.res) = call.arg[1] * 65536 + call.arg[2]
         /\ call.arg = <<0, 0>> => call.res = Zeros(32)
         /\ call.arg = <<65535, 65535>> => call.res = Ones(32)
    /\ call.fn = "regs2uint64" =>
         /\ Len(call.res) = 64
         /\ call.res = Concat(call.arg)
         /\ (call.arg[1] = 0 /\ call.arg[2] = 0 /\ call.arg[3] < 32768) =>
              BitsToNat(call.res) = call.arg[3] * 65536 + call.arg[4]

C6_Witness ==
    \/ /\ call.fn = "regs2uint32"
       /\ call.arg = <<65535, 1>>
       /\ call.res = Ones(16) \o Zeros(15) \o <<1>>
    \/ /\ call.fn = "regs2uint64"
       /\ call.arg = <<1, 0, 4660, 65535>>
       /\ call.res = Zeros(15) \o <<1>> \o Zeros(16) \o ToBits(4660, 16) \o Ones(16)

(* C7: a field whose position the register map marks Signed yields a       *)
(* negative value when the top bit of its raw value is set, and a field    *)
(* marked Unsigned is never negative.                                      *)
C7_Signedness ==
    call.fn = "field" =>
        LET f      == FieldMap[call.arg[1]]
            signed == f.idx \in RegisterMapSigned[f.block]
            top    == ToBits(call.arg[2][1], WORD_BITS)[1] = 1
        IN  /\ (signed /\ top) => call.res.neg
            /\ ~signed => ~call.res.neg

(* ---- vocabulary of the payload properties ---- *)
ReadFailed(r) == r[3] # Blocks[r[2]].n

(* the rendered lines of a payload, without the separators *)
LineTokens(p) ==
    IF p = NULL THEN <<>> ELSE SelectSeq(p.v, LAMBDA t : t.t = "line")

MeterTag(dev) == <<[name |-> "meter", value |-> ToString(dev)]>>

LinesOfMeter(p, dev) ==
    SelectSeq(LineTokens(p), LAMBDA t : t.tags = MeterTag(dev))

(* the complete line of a measurement of meter dev, all values read from   *)
(* that meter's block in this cycle                                        *)
FullLine(dev, measurement, fields) ==
    [t |-> "line", measurement |-> measurement, tags |-> MeterTag(dev),
     fields |-> [k \in 1..Len(fields) |->
                    [name |-> fields[k].name,
                     src  |-> Fresh(dev, fields[k].block)]]]

ExpectedLines(dev) ==
    << FullLine(dev, "instant", InstantFields),
       FullLine(dev, "accumulator_total", TotalFields),
       FullLine(dev, "accumulator_phase", PhaseFields) >>

RECURSIVE JoinLines(_)
JoinLines(ls) ==
    IF Len(ls) <= 1 THEN ls ELSE <<Head(ls), NL>> \o JoinLines(Tail(ls))

ExpectedPayload ==
    JoinLines(ExpectedLines(1) \o ExpectedLines(2) \o ExpectedLines(3))

BlockOfMeasurement ==
    [instant |-> "instant", accumulator_total |-> "total",
     accumulator_phase |-> "phase"]

(* every field of every line of payload p carries a value decoded from the *)
(* block of its measurement, read from the meter of its tag                *)
OnlyDecodedFields(p) ==
    \A n \in 1..Len(LineTokens(p)) :
        LET t == LineTokens(p)[n]
        IN  \A k \in 1..Len(t.fields) :
               \E dev \in Meters :
                  /\ t.tags = MeterTag(dev)
                  /\ t.fields[k].src = Fresh(dev, BlockOfMeasurement[t.measurement])

(* C1: when a read of one device fails in a cycle, every other device is   *)
(* still sampled in that cycle and has its three full lines in the payload *)
(* that is delivered.                                                      *)
C1_OthersSampled ==
    (pc = "free" /\ sent # NULL) =>
        \A k \in 1..Len(reads) :
            ReadFailed(reads[k]) =>
                \A dev \in Meters \ {reads[k][1]} :
                    LinesOfMeter(sent, dev) = ExpectedLines(dev)

(* C2: when increment_time has advanced the target, the new target is a    *)
(* whole multiple of INTERVAL: seconds % INTERVAL = 0 and nanoseconds = 0. *)
C2_Aligned ==
    (pc = "wait_now" /\ iters > 0) =>
        /\ CMod(ts_next.tv_sec, INTERVAL) = 0
        /\ ts_next.tv_nsec = 0

(* C3: the duration handed to usleep is strictly positive and is not       *)
(* derived from a negative difference.                                     *)
C3_PositiveWait ==
    pc = "sleep" => (wait > 0 /\ ~Behind(diff))

(* C4: from a target in the past, one invocation of increment_time lands   *)
(* on the smallest interval boundary that is not before the clock reading  *)
(* taken at call time.                                                     *)
C4_SmallestBoundary ==
    (pc = "wait_now" /\ Ticks(then0) < Ticks(now)) =>
        /\ CMod(ts_next.tv_sec, INTERVAL) = 0 /\ ts_next.tv_nsec = 0
        /\ Ticks(ts_next) >= Ticks(now)
        /\ Ticks(ts_next) - INTERVAL * NSEC_PER_SEC < Ticks(now)

(* C5: every wake-up of the scheduler is followed by one sample cycle, and *)
(* the target the scheduler settles on is not earlier than the clock       *)
(* reading it was compared against.                                        *)
C5_OneCyclePerWake ==
    /\ [](pc = "wait_now" => Ticks(ts_next) >= Ticks(now))
    /\ [][pc = "check" => pc' = "read_instant"]_vars

(* C8: in a cycle in which all nine reads succeed, the payload handed to   *)
(* influx_writer_write is the nine lines, by device 1,2,3 and within a     *)
(* device instant, accumulator_total, accumulator_phase, each tagged with  *)
(* its device, and exactly one POST is issued.                             *)
C8_NineLinesOnePost ==
    (pc = "free" /\ Len(reads) = 9 /\ \A k \in 1..9 : ~ReadFailed(reads[k])) =>
        /\ sent = Ptr(ExpectedPayload)
        /\ posts = 1

(* C9: after a read of device d fails or is short, no later block of d is  *)
(* read in that cycle, the buffer is not decoded (no array holds a value   *)
(* taken from beyond the registers received, and the array of the failed   *)
(* block stays as initialised), and no field of the payload has a value    *)
(* that was not decoded from its own block of its own device.              *)
C9_NoUndecoded ==
    /\ \A k \in 1..Len(reads) :
          ReadFailed(reads[k]) =>
              /\ \A m \in (k + 1)..Len(reads) : reads[m][1] # reads[k][1]
              /\ (reads[k][1] = i /\ pc \in {"deliver", "free"}) =>
                    [instant |-> instants, total |-> totals,
                     phase |-> phases][reads[k][2]] = ZeroArray
    /\ \A j \in 0..15 :
          /\ instants[j] \in {Zero, Fresh(i, "instant")}
          /\ totals[j] \in {Zero, Fresh(i, "total")}
          /\ phases[j] \in {Zero, Fresh(i, "phase")}
    /\ OnlyDecodedFields(lines)
    /\ OnlyDecodedFields(sent)

C9_Witness ==
    /\ pc = "free"
    /\ reads = << <<1, "instant", 28>>, <<1, "total", 56>>, <<1, "phase", 36>>,
                  <<2, "instant", 28>>, <<2, "total", 55>> >>
    /\ sent = Ptr(JoinLines(ExpectedLines(1)))
    /\ posts = 1

(* C10: when the first block of a device is read and a later block of the  *)
(* same device fails, the payload still has that device's instant line.    *)
C10_PartialMeasurement ==
    (pc = "free" /\ sent # NULL) =>
        \A k \in 1..Len(reads) :
            (ReadFailed(reads[k]) /\ reads[k][2] # "instant") =>
                \E n \in 1..Len(LineTokens(sent)) :
                    LineTokens(sent)[n] = FullLine(reads[k][1], "instant", InstantFields)

(***************************************************************************)
(* The Session: outcomes of a write, the signal mask, termination.         *)
(***************************************************************************)
(* the steps of influx_http_post between the block and the restore of the  *)
(* signal mask: the request is in flight                                   *)
InFlight == pc \in {"h_setopt", "h_perform", "h_restore"}

(* influx_writer_write has returned to main *)
Returned == pc \in {"w_ret", "free"}

(* C11: the result of influx_writer_write is 0 when the server answered    *)
(* with a status below 400, the status itself when the server answered     *)
(* with 4xx or 5xx, and -1 when there was no answer (no transfer was made, *)
(* or the transfer failed).                                                *)
C11_Classification ==
    Returned =>
        IF curlrc.rc = "none" \/ curlrc.status = 0 THEN ret = -1
        ELSE IF curlrc.status < 400 THEN ret = 0
        ELSE ret = curlrc.status

C11_Witness ==
    /\ pc = "free" /\ ret = 401
    /\ curlrc.rc = "CURLE_HTTP_RETURNED_ERROR" /\ curlrc.status = 401

(* C12: no step of main's loop, whatever the outcome of the write, changes *)
(* the Session or releases its transport handle or its URL object: while   *)
(* no signal handler has run, the Session is the one that was created.     *)
C12_SessionKept ==
    [][(handler = <<>> /\ pc \notin {"create", "exited", "crashed"}) =>
          /\ writer' = writer /\ heap' = heap
          /\ writer # NULL
          /\ heap.ctx = Obj(0) /\ heap.curl = Obj(0) /\ heap.curlurl = Obj(0)]_vars

C12_Witness ==
    /\ pc = "h_perform" /\ httpheader = DANGLING /\ handler = <<>>
    /\ heap.curl = Obj(0) /\ heap.curlurl = Obj(0)

(* C13: from the first option to the end of the transfer all signals are   *)
(* blocked, and when influx_http_post has returned the signal mask is the  *)
(* mask it was entered with.                                               *)
C13_MaskRestored ==
    /\ InFlight => sigmask = Signals
    /\ pc = "w_free" => sigmask = mask_in

C13_Witness ==
    /\ pc = "w_free" /\ sigmask = {"SIGINT"} /\ mask_in = {"SIGINT"}
    /\ curlrc.rc = "CURLE_COULDNT_CONNECT"

(* C14: while a request is in flight no signal handler runs and the        *)
(* Session and its handles are not released.                               *)
C14_NoHandlerInFlight ==
    InFlight =>
        /\ handler = <<>>
        /\ heap.ctx = Obj(0) /\ heap.curl = Obj(0) /\ heap.curlurl = Obj(0)

C14_Witness ==
    /\ pc = "w_free" /\ curlrc.rc = "CURLE_OK"
    /\ handler # <<>> /\ heap.curl = Obj(1)
    /\ nsig = 1

(* the number of times a heap object was released *)
Releases(o) == IF o = Absent THEN 0 ELSE o.released

(* C15: when a signal handler has run for a Session that was created, the  *)
(* Session and the Modbus context are released once, never twice, and the  *)
(* process exits from the handler rather than aborting in it.              *)
C15_ReleasedOnce ==
    (writer # NULL /\ handler # <<>>) =>
        /\ Releases(heap.ctx) <= 1 /\ Releases(heap.mb) <= 1
        /\ pc # "crashed"
        /\ pc = "exited" => (heap.ctx = Obj(1) /\ heap.mb = Obj(1))

(* C16: over the life of a Session, whatever the number of calls of        *)
(* influx_writer_destroy on it, its transport handle and its URL object    *)
(* are released at most once; destroy(NULL) releases nothing.              *)
C16_DestroyIdempotent ==
    /\ Releases(heap.curl) <= 1 /\ Releases(heap.curlurl) <= 1
    /\ influx_writer_destroy(NULL, heap) = heap

(* C17: the URL of every Session that influx_writer_create returned        *)
(* carries the three query parameters org, bucket and precision.           *)
C17_AllQueryParams ==
    writer # NULL => writer.v.query = QueryParams

(* the header list h has the header Authorization: Token <secret> *)
HasAuthorization(h, secret) ==
    /\ h # NULL /\ h # DANGLING
    /\ \E k \in 1..Len(h.v) : h.v[k] = AuthHeader(secret)

(* C18: a request that was issued carried the header                       *)
(* Authorization: Token <secret> if and only if INFLUXDB_TOKEN is set.      *)
C18_AuthorizationIffToken ==
    curlrc.rc # "none" =>
        IF token = NULL
        THEN curlrc.headers = NULL
             \/ (curlrc.headers # DANGLING
                 /\ \A k \in 1..Len(curlrc.headers.v) :
                       curlrc.headers.v[k].name # "Authorization")
        ELSE HasAuthorization(curlrc.headers, token.v)

(* C19: when the write of a cycle has returned a positive status or -1,    *)
(* something was written to the diagnostic output in that cycle.           *)
C19_FailuresLogged ==
    (pc = "free" /\ ret # 0) => log # {}

(* meter dev was read in full in this cycle *)
Complete(dev) ==
    \A b \in {"instant", "total", "phase"} :
        \E k \in 1..Len(reads) : reads[k] = <<dev, b, Blocks[b].n>>

(* the lines built from the reads of this cycle *)
CycleLines ==
    (IF Complete(1) THEN ExpectedLines(1) ELSE <<>>)
    \o (IF Complete(2) THEN ExpectedLines(2) ELSE <<>>)
    \o (IF Complete(3) THEN ExpectedLines(3) ELSE <<>>)

(* C20: at most one transfer is performed per cycle; at the top of a cycle *)
(* nothing of an earlier cycle is held (no payload, no request body, no    *)
(* reads); and the payload handed to the write, and the body of the        *)
(* request, are the lines built from the reads of this cycle.              *)
C20_OnePostNoCarryOver ==
    /\ posts <= 1
    /\ pc \in {"alloc", "inc_now", "inc_loop", "wait_now", "sleep", "check"} =>
          /\ lines \in {NULL, Garbage}
          /\ sent = NULL /\ data = NULL /\ reads = <<>> /\ posts = 0
    /\ sent # NULL => LineTokens(sent) = CycleLines
    /\ data # NULL => (sent # NULL /\ data = Ptr(sent.v \o <<NL>>))
    /\ pc = "free" => data = NULL

C20_Witness ==
    /\ pc = "free" /\ ret = 500 /\ posts = 1
    /\ sent = Ptr(ExpectedPayload)
    /\ curlrc.status = 500

(***************************************************************************)
(* The loop after a failure.                                               *)
(***************************************************************************)
(* a read of this cycle failed or was short, and the meter loop was left *)
ReadFailure ==
    /\ pc = "deliver" /\ reads # <<>> /\ ReadFailed(reads[Len(reads)])

(* the write of this cycle was rejected or failed, and has returned *)
DeliveryFailure == pc = "w_ret" /\ ret # 0

(* a step in which the process dies of a NULL pointer that a failed        *)
(* allocation left behind: in the conversion block, in strlen(lines), or   *)
(* in a transfer whose header list could not be built                      *)
AllocationCrash ==
    \/ pc = "convert" /\ (faults' < faults \/ lines = NULL)
    \/ pc = "h_enter" /\ lines = NULL
    \/ pc = "h_perform" /\ headers = NULL

MaxCalls == 5

FieldNames == {"a", "b"}
FieldValues == {1, 2}

(* malloc/calloc/realloc(NULL): the lowest address not in use *)
NewBlock(h) == CHOOSE a \in 1..(Cardinality(DOMAIN h) + 1) :
                /\ a \notin DOMAIN h
                /\ \A b \in 1..(a - 1) : b \in DOMAIN h
Alloc(h, b) == (NewBlock(h) :> b) @@ h
Free(h, a) == [x \in DOMAIN h \ {a} |-> h[x]]

(* struct influx_field_list, struct influx_field_elem, struct field, a    *)
(* string and the array of struct field pointers, as calloc leaves them    *)
ListBlock == [kind |-> "list", next |-> NULL, last |-> NULL, num |-> 0]
ElemBlock == [kind |-> "elem", f |-> [name |-> NULL, value |-> 0], next |-> NULL]
FieldBlock == [kind |-> "field", name |-> NULL, value |-> 0]
StrBlock(text) == [kind |-> "str", text |-> text]
ArrayBlock(n) == [kind |-> "array", slots |-> [k \in 1..n |-> NULL]]

(* an append that puts the new element in front of the others *)
LinkFirst(h, l, e) ==
    [h EXCEPT ![e].next = h[l].next,
              ![l] = [h[l] EXCEPT !.num = @ + 1, !.next = Ptr(e),
                                  !.last = IF @ = NULL THEN Ptr(e) ELSE @]]

(* 759-763, 775-779: the new element e behind the last one of list l *)
LinkLast(h, l, e) ==
    IF h[l].next = NULL
    THEN [h EXCEPT ![l] = [h[l] EXCEPT !.num = @ + 1, !.next = Ptr(e),
                                       !.last = Ptr(e)]]
    ELSE [h EXCEPT ![h[l].last.v].next = Ptr(e),
                   ![l] = [h[l] EXCEPT !.num = @ + 1, !.last = Ptr(e)]]

(* influx_field_list_append 743-799: the heap after the call and the      *)
(* value returned; okName and okElem are the outcomes of fstring and of    *)
(* calloc                                                                  *)
FieldListAppend(h, l, field, value, okName, okElem) ==
    IF ~okName THEN [heap |-> h, ret |-> -1]
    ELSE LET name == NewBlock(h)
             h1   == Alloc(h, StrBlock(field))
         IN  IF l = NULL THEN [heap |-> h1, ret |-> -1]
             ELSE IF h1[l.v].next = NULL \/ h1[l.v].last # NULL
             THEN IF okElem
                  THEN LET e  == NewBlock(h1)
                           h2 == Alloc(h1, [ElemBlock EXCEPT
                                              !.f = [name |-> Ptr(name),
                                                     value |-> value]])
                       IN  [heap |-> LinkLast(h2, l.v, e), ret |-> 0]
                  ELSE [heap |-> Free(h1, name), ret |-> -1]
             ELSE [heap |-> Free(h1, name), ret |-> -1]

(* influx_field_compact_free 834-846 from slot k on *)
RECURSIVE FreeSlots(_, _, _)
FreeSlots(h, arr, k) ==
    IF k > Len(h[arr].slots) \/ h[arr].slots[k] = NULL THEN Free(h, arr)
    ELSE LET fa == h[arr].slots[k].v
             h1 == IF h[fa].name = NULL THEN h ELSE Free(h, h[fa].name.v)
         IN  FreeSlots(Free(h1, fa), arr, k + 1)

influx_field_compact_free(h, fields) ==
    IF fields = NULL THEN h ELSE FreeSlots(h, fields.v, 1)

(* a compact loop whose entries point at the names of the list *)
RECURSIVE CompactLoopShared(_, _, _, _, _, _, _)
CompactLoopShared(h, arr, head, k, num, failAt, n) ==
    IF head = NULL \/ k >= num THEN [heap |-> h, ret |-> Ptr(arr)]
    ELSE IF failAt = n + 1
    THEN [heap |-> Free(h, arr), ret |-> NULL]
    ELSE LET fa == NewBlock(h)
             e  == h[head.v]
             h1 == Alloc(h, [FieldBlock EXCEPT !.name = e.f.name,
                                               !.value = e.f.value])
             h2 == [h1 EXCEPT ![arr].slots[k + 1] = Ptr(fa)]
         IN  CompactLoopShared(h2, arr, e.next, k + 1, num, failAt, n + 2)

(* 868-882: the loop of influx_field_list_compact; k entries are filled,   *)
(* n allocations were made, and allocation number failAt fails             *)
RECURSIVE CompactLoop(_, _, _, _, _, _, _)
CompactLoop(h, arr, head, k, num, failAt, n) ==
    IF head = NULL \/ k >= num THEN [heap |-> h, ret |-> Ptr(arr)]
    ELSE IF failAt = n + 1
    THEN [heap |-> influx_field_compact_free(h, Ptr(arr)), ret |-> NULL]
    ELSE LET fa == NewBlock(h)
             h1 == Alloc(h, FieldBlock)
             h2 == [h1 EXCEPT ![arr].slots[k + 1] = Ptr(fa)]
         IN  IF failAt = n + 2
             THEN [heap |-> influx_field_compact_free(h2, Ptr(arr)), ret |-> NULL]
             ELSE LET sa == NewBlock(h2)
                      e  == h2[head.v]
                      h3 == Alloc(h2, StrBlock(h2[e.f.name.v].text))
                      h4 == [h3 EXCEPT ![fa].name = Ptr(sa)]
                      h5 == [h4 EXCEPT ![fa].value = e.f.value]
                  IN  CompactLoop(h5, arr, e.next, k + 1, num, failAt, n + 2)

(* influx_field_list_compact 854-888 *)
FieldListCompact(h, l, failAt) ==
    IF l = NULL THEN [heap |-> h, ret |-> NULL]
    ELSE IF failAt = 1 THEN [heap |-> h, ret |-> NULL]
    ELSE LET arr == NewBlock(h)
             h1  == Alloc(h, ArrayBlock(h[l.v].num + 1))
         IN  CompactLoop(h1, arr, h[l.v].next, 0, h[l.v].num, failAt, 1)

(* the elements reachable from an element pointer, in order *)
RECURSIVE Reach(_, _)
Reach(h, p) ==
    IF p = NULL THEN <<>> ELSE <<p.v>> \o Reach(h, h[p.v].next)

(* the name and value of each element of a list *)
Elements(h, l) ==
    LET r == Reach(h, h[l.v].next)
    IN  [k \in 1..Len(r) |-> [name  |-> h[h[r[k]].f.name.v].text,
                              value |-> h[r[k]].f.value]]

(* the entries of a compact array up to its first NULL slot *)
RECURSIVE Entries(_, _, _)
Entries(h, arr, k) ==
    IF k > Len(h[arr].slots) \/ h[arr].slots[k] = NULL THEN <<>>
    ELSE LET f == h[h[arr].slots[k].v]
         IN  <<[name |-> h[f.name.v].text, value |-> f.value]>>
             \o Entries(h, arr, k + 1)

(* instant_fields = influx_field_list_create() *)
CallFieldListCreate ==
    /\ pc = "fields" /\ Len(hist) < MaxCalls /\ field_list = NULL
    /\ \E ok \in BOOLEAN :
         LET p == IF ok THEN Ptr(NewBlock(blocks)) ELSE NULL
         IN  /\ blocks' = IF ok THEN Alloc(blocks, ListBlock) ELSE blocks
             /\ field_list' = p
             /\ call' = [fn |-> "influx_field_list_create", arg |-> <<>>, res |-> p]
    /\ hist' = Append(hist, call')
    /\ UNCHANGED <<progVars, compacted, upload>>

(* influx_field_list_append(instant_fields, name, value) *)
CallFieldListAppend ==
    /\ pc = "fields" /\ Len(hist) < MaxCalls
    /\ \E field \in FieldNames : \E value \in FieldValues :
       \E okName, okElem \in BOOLEAN :
         LET r == FieldListAppend(blocks, field_list, field, value, okName, okElem)
         IN  /\ blocks' = r.heap
             /\ call' = [fn |-> "influx_field_list_append",
                         arg |-> [name |-> field, value |-> value],
                         res |-> r.ret]
    /\ hist' = Append(hist, call')
    /\ UNCHANGED <<progVars, field_list, compacted, upload>>

(* compact_instants = influx_field_list_compact(instant_fields) *)
CallFieldListCompact ==
    /\ pc = "fields" /\ Len(hist) < MaxCalls /\ compacted = NULL
    /\ \E failAt \in 0..(IF field_list = NULL THEN 0
                         ELSE 2 * blocks[field_list.v].num + 1) :
         LET r == FieldListCompact(blocks, field_list, failAt)
         IN  /\ blocks' = r.heap
             /\ compacted' = r.ret
             /\ call' = [fn |-> "influx_field_list_compact", arg |-> <<>>,
                         res |-> r.ret]
    /\ hist' = Append(hist, call')
    /\ UNCHANGED <<progVars, field_list, upload>>


(* the program not running: only the library is exercised *)
ProgramIdle ==
    /\ abi = "LP64"
    /\ clock = 0 /\ ts_next = ZeroTime
    /\ now = ZeroTime /\ d = ZeroTime /\ diff = ZeroTime /\ wait = 0
    /\ then0 = ZeroTime /\ iters = 0
    /\ lines = NULL
    /\ i = 1 /\ rc = 0
    /\ regs = Indeterminate
    /\ instants = ZeroArray /\ totals = ZeroArray /\ phases = ZeroArray
    /\ reads = <<>>
    /\ sent = NULL /\ posts = 0 /\ ret = 0
    /\ faults = 0
    /\ call = NoCall
    /\ writer = NULL
    /\ heap = [ctx |-> Absent, curl |-> Absent, curlurl |-> Absent, mb |-> Absent]
    /\ sigmask = {} /\ old_sigset = {} /\ mask_in = {}
    /\ pending = {} /\ handler = <<>> /\ nsig = 0
    /\ token = NULL
    /\ zDEBUG = 0
    /\ headers = NULL /\ httpheader = NULL
    /\ log = {} /\ curlrc = NoTransfer

InitFields == ProgramIdle /\ pc = "fields" /\ data = NULL /\ LibIdle

NextFields ==
    \/ CallFieldListCreate
    \/ CallFieldListAppend
    \/ CallFieldListCompact

SpecFields == InitFields /\ [][NextFields]_vars

(* the calls of hist that appended a field, as the entries they added *)
RECURSIVE Appended(_)
Appended(h) ==
    IF h = <<>> THEN <<>>
    ELSE LET c == h[Len(h)]
             r == Appended(SubSeq(h, 1, Len(h) - 1))
         IN  IF c.fn = "influx_field_list_append" /\ c.res = 0
             THEN Append(r, c.arg) ELSE r

(* the calls made before the compact call that returned the array *)
RECURSIVE BeforeCompact(_)
BeforeCompact(h) ==
    IF h = <<>> THEN <<>>
    ELSE IF Head(h).fn = "influx_field_list_compact" /\ Head(h).res # NULL
    THEN <<>>
    ELSE <<Head(h)>> \o BeforeCompact(Tail(h))

(* C22: a compact array that was returned holds exactly the N fields       *)
(* appended with success before the call, entry i with the name and value  *)
(* of the i-th append, in N + 1 slots of which the last is NULL; and it    *)
(* stays so whatever is called afterwards.                                 *)
C22_CompactInOrder ==
    compacted # NULL =>
        LET N == Len(Appended(BeforeCompact(hist)))
        IN  /\ Entries(blocks, compacted.v, 1) = Appended(BeforeCompact(hist))
            /\ Len(blocks[compacted.v].slots) = N + 1
            /\ blocks[compacted.v].slots[N + 1] = NULL
            /\ \A k \in 1..N : blocks[compacted.v].slots[k] # NULL

C22_Witness ==
    /\ compacted # NULL
    /\ call.fn = "influx_field_list_compact"
    /\ Appended(hist) = <<[name |-> "b", value |-> 2], [name |-> "a", value |-> 1]>>

(* the names and values of the caller's list, <<>> for no list *)
ListElements == IF field_list = NULL THEN <<>> ELSE Elements(blocks, field_list)

(* C23: once influx_field_list_compact has returned the array of a list,   *)
(* every later influx_field_list_append on that list returns -1 and        *)
(* leaves the list as it was.                                              *)
C23_AppendAfterCompactRejected ==
    [][(compacted # NULL /\ hist' # hist
          /\ call'.fn = "influx_field_list_append")
       => (call'.res = -1 /\ ListElements' = ListElements)]_vars

(* num counts the reachable elements, last is the final one, and next and  *)
(* last are NULL exactly when num is 0                                     *)
FieldListWellFormed ==
    field_list # NULL =>
        LET l == blocks[field_list.v]
            r == Reach(blocks, l.next)
        IN  /\ l.num = Len(r)
            /\ l.last = (IF r = <<>> THEN NULL ELSE Ptr(r[Len(r)]))
            /\ (l.next = NULL /\ l.last = NULL) <=> (l.num = 0)

(* every string block is the name of an element or of a compact entry *)
NoStrayName ==
    \A a \in DOMAIN blocks :
        blocks[a].kind = "str" =>
            \E b \in DOMAIN blocks :
                \/ blocks[b].kind = "elem" /\ blocks[b].f.name = Ptr(a)
                \/ blocks[b].kind = "field" /\ blocks[b].name = Ptr(a)

(* a failing append leaves num, the elements and their order as they were *)
FailingAppendKeepsList ==
    (hist' # hist /\ call'.fn = "influx_field_list_append" /\ call'.res = -1)
    => /\ ListElements' = ListElements
       /\ field_list # NULL => blocks'[field_list.v] = blocks[field_list.v]

(* C30: after any create and append calls the list is well formed, a       *)
(* failing append changes nothing of it, and no name copy is left behind,  *)
(* also when the list argument is NULL.                                    *)
C30_ListInvariantsNoLeak ==
    /\ [](FieldListWellFormed /\ NoStrayName)
    /\ [][FailingAppendKeepsList]_vars


(***************************************************************************)
(* The Line Encoder (influx.c) character by character: a text is a         *)
(* sequence of strings, "" being no character at all.                      *)
(***************************************************************************)
MaxEntries == 3

(* enum influx_precision *)
INFLUX_PRECISION_S == 0
INFLUX_PRECISION_MS == 1
INFLUX_PRECISION_US == 2
INFLUX_PRECISION_NS == 3

DigitChar == <<"0", "1", "2", "3", "4", "5", "6", "7", "8", "9">>

(* "%ld" and "%d" of a number that is not negative *)
RECURSIVE Digits(_)
Digits(n) ==
    IF n < 10 THEN <<DigitChar[n + 1]>>
    ELSE Append(Digits(n \div 10), DigitChar[(n % 10) + 1])

(* divisors[prec]: 1.e9, 1.e6, 1.e3, 1.e0 *)
Divisor(prec) ==
    CASE prec = INFLUX_PRECISION_S  -> 1000000000
      [] prec = INFLUX_PRECISION_MS -> 1000000
      [] prec = INFLUX_PRECISION_US -> 1000
      [] prec = INFLUX_PRECISION_NS -> 1

(* "%.0f" of (double) n / div: the quotient rounded to the nearest        *)
(* integer, a half to the even one                                         *)
Fmt0f(n, div) ==
    LET q == n \div div
        r == n % div
    IN  Digits(IF 2 * r > div \/ (2 * r = div /\ q % 2 = 1) THEN q + 1 ELSE q)

(* influx_timestamp_precision 254-280 for the clock reading ts; okClock    *)
(* and ok are the outcomes of clock_gettime and of fstring                 *)
influx_timestamp_precision(prec, ts, okClock, ok) ==
    IF ~okClock \/ ~ok THEN NULL
    ELSE IF prec # INFLUX_PRECISION_S
    THEN Ptr(Digits(ts.tv_sec) \o Fmt0f(ts.tv_nsec, Divisor(prec)))
    ELSE Ptr(Digits(ts.tv_sec))

(* clock readings: seconds and nanoseconds *)
ClockSec == {0, 1, 1700000000}
ClockNsec == {0, 500000, 1500000, 5000000, 123456789, 999499999, 999600000,
              999999999}

(* timestamp = influx_timestamp_precision(prec) *)
CallTimestamp ==
    /\ pc = "encode" /\ call = NoCall
    /\ \E prec \in INFLUX_PRECISION_S..INFLUX_PRECISION_NS :
       \E sec \in ClockSec : \E nsec \in ClockNsec :
       \E okClock, ok \in BOOLEAN :
         LET ts == [tv_sec |-> sec, tv_nsec |-> nsec]
         IN  call' = [fn |-> "influx_timestamp_precision",
                      arg |-> [prec |-> prec, ts |-> ts],
                      res |-> influx_timestamp_precision(prec, ts, okClock, ok)]
    /\ UNCHANGED <<progVars, libVars>>

(* the characters "%s" prints for a string *)
Text(str) == IF str = "" THEN <<>> ELSE <<str>>

(* "%f" of a whole number *)
Fmt_f(v) == Digits(v) \o <<".", "000000">>

(* a separator chosen by the position in the list *)
SepByIndex(str, k) == IF k = 1 THEN <<>> ELSE <<",">>

(* 326, 339: sep is "" while the string built so far is empty, else "," *)
Sep(str, k) == IF str = <<>> THEN <<>> ELSE <<",">>

(* 324-335: the tag loop from tags[k] on; n allocations were made and      *)
(* allocation number failAt fails.  The text built, or NULL, and n.        *)
RECURSIVE TagLoop(_, _, _, _, _)
TagLoop(tagstr, tags, k, failAt, n) ==
    IF k > Len(tags) THEN [str |-> Ptr(tagstr), n |-> n]
    ELSE IF tags[k].name = "" \/ tags[k].value = ""
    THEN TagLoop(tagstr, tags, k + 1, failAt, n)
    ELSE IF failAt = n + 1 THEN [str |-> NULL, n |-> n + 1]
    ELSE TagLoop(tagstr \o Sep(tagstr, k) \o Text(tags[k].name) \o <<"=">>
                        \o Text(tags[k].value),
                 tags, k + 1, failAt, n + 1)

(* 337-348: the field loop *)
RECURSIVE FieldLoop(_, _, _, _, _)
FieldLoop(fieldstr, fields, k, failAt, n) ==
    IF k > Len(fields) THEN [str |-> Ptr(fieldstr), n |-> n]
    ELSE IF fields[k].name = ""
    THEN FieldLoop(fieldstr, fields, k + 1, failAt, n)
    ELSE IF failAt = n + 1 THEN [str |-> NULL, n |-> n + 1]
    ELSE FieldLoop(fieldstr \o Sep(fieldstr, k) \o Text(fields[k].name)
                            \o <<"=">> \o Fmt_f(fields[k].value),
                   fields, k + 1, failAt, n + 1)

(* influx_writer_line 291-363 with the timestamp string already made       *)
(* (NULL when it could not be): the line returned and errno.  Allocation   *)
(* 1 is fieldstr, 2 is tagstr, then one for each tag and field rendered,   *)
(* then the line.                                                          *)
WriterLine(measurement, tags, fields, timestamp, failAt) ==
    IF tags = NULL \/ fields = NULL \/ measurement = NULL
    THEN [ret |-> NULL, errno |-> "EINVAL"]
    ELSE IF timestamp = NULL \/ failAt \in {1, 2}
    THEN [ret |-> NULL, errno |-> "ENOMEM"]
    ELSE LET t == TagLoop(<<>>, tags.v, 1, failAt, 2)
             f == FieldLoop(<<>>, fields.v, 1, failAt, t.n)
         IN  IF t.str = NULL \/ f.str = NULL \/ failAt = f.n + 1
             THEN [ret |-> NULL, errno |-> "ENOMEM"]
             ELSE [ret |-> Ptr(Text(measurement.v) \o <<",">> \o t.str.v
                               \o <<" ">> \o f.str.v \o <<" ">> \o timestamp.v),
                   errno |-> "unchanged"]

(* the sequences over S of length up to n *)
SeqUpTo(S, n) == UNION {[1..m -> S] : m \in 0..n}

TagSamples == [name : {"", "a", "b"}, value : {"", "1"}]
FieldSamples == [name : {"", "x", "y"}, value : {2}]
MeasurementSamples == {NULL, Ptr(""), Ptr("m")}

(* the number of allocations of a call that renders every entry *)
AllocsOf(tags, fields) ==
    3 + (IF tags = NULL THEN 0 ELSE Len(tags.v))
      + (IF fields = NULL THEN 0 ELSE Len(fields.v))

(* line = influx_writer_line(measurement, tags, fields, FLUX_PRC) at the   *)
(* clock reading 1 s                                                       *)
CallWriterLine ==
    /\ pc = "encode" /\ call = NoCall
    /\ \E measurement \in MeasurementSamples :
       \E tags \in {NULL} \cup {Ptr(t) : t \in SeqUpTo(TagSamples, MaxEntries)} :
       \E fields \in {NULL} \cup {Ptr(f) : f \in SeqUpTo(FieldSamples, MaxEntries - 1)} :
       \E okStamp \in BOOLEAN : \E failAt \in 0..AllocsOf(tags, fields) :
         LET timestamp == influx_timestamp_precision(INFLUX_PRECISION_S,
                              [tv_sec |-> 1, tv_nsec |-> 0], TRUE, okStamp)
         IN  call' = [fn |-> "influx_writer_line",
                      arg |-> [measurement |-> measurement, tags |-> tags,
                               fields |-> fields],
                      res |-> WriterLine(measurement, tags, fields, timestamp,
                                         failAt)]
    /\ UNCHANGED <<progVars, libVars>>

InitEncode == ProgramIdle /\ pc = "encode" /\ data = NULL /\ LibIdle

NextEncode ==
    \/ CallTimestamp
    \/ CallWriterLine

SpecEncode == InitEncode /\ [][NextEncode]_vars

(* the pieces of a text between its commas; no piece for the empty text *)
RECURSIVE SplitComma(_)
SplitComma(seg) ==
    IF \A k \in 1..Len(seg) : seg[k] # "," THEN <<seg>>
    ELSE LET c == CHOOSE k \in 1..Len(seg) :
                      seg[k] = "," /\ \A j \in 1..(k - 1) : seg[j] # ","
         IN  <<SubSeq(seg, 1, c - 1)>> \o SplitComma(SubSeq(seg, c + 1, Len(seg)))

Pieces(seg) == IF seg = <<>> THEN <<>> ELSE SplitComma(seg)

(* the positions of the spaces of a text, in order *)
Spaces(line) ==
    LET P == {k \in 1..Len(line) : line[k] = " "}
    IN  [n \in 1..Cardinality(P) |->
            CHOOSE k \in P : Cardinality({j \in P : j < k}) = n - 1]

(* the tag segment and the field segment of a line for measurement m *)
TagSegment(line, m) == SubSeq(line, Len(Text(m)) + 2, Spaces(line)[1] - 1)
FieldSegment(line) == SubSeq(line, Spaces(line)[1] + 1, Spaces(line)[2] - 1)

KeptTag(t) == t.name # "" /\ t.value # ""
KeptField(f) == f.name # ""

NoStrayComma(seg) ==
    seg # <<>> =>
        /\ seg[1] # "," /\ seg[Len(seg)] # ","
        /\ \A k \in 1..(Len(seg) - 1) : ~(seg[k] = "," /\ seg[k + 1] = ",")

(* C25: in a line that influx_writer_line returns, the tag segment is the  *)
(* tags with a non-empty name and value and the field segment the fields   *)
(* with a non-empty name, each as name=value, in input order, with one     *)
(* comma between neighbours and none in front, behind or doubled.          *)
C25_SegmentsRendered ==
    (call.fn = "influx_writer_line" /\ call.res.ret # NULL) =>
        LET line == call.res.ret.v
            tseg == TagSegment(line, call.arg.measurement.v)
            fseg == FieldSegment(line)
            kt   == SelectSeq(call.arg.tags.v, KeptTag)
            kf   == SelectSeq(call.arg.fields.v, KeptField)
        IN  /\ Pieces(tseg) = [k \in 1..Len(kt) |->
                                  <<kt[k].name, "=", kt[k].value>>]
            /\ Pieces(fseg) = [k \in 1..Len(kf) |->
                                  <<kf[k].name, "=">> \o Fmt_f(kf[k].value)]
            /\ NoStrayComma(tseg) /\ NoStrayComma(fseg)

C25_Witness ==
    /\ call.fn = "influx_writer_line"
    /\ call.arg.tags = Ptr(<<[name |-> "a", value |-> "1"],
                             [name |-> "b", value |-> ""],
                             [name |-> "b", value |-> "1"]>>)
    /\ call.arg.fields = Ptr(<<[name |-> "", value |-> 2],
                               [name |-> "x", value |-> 2]>>)
    /\ call.res.ret = Ptr(<<"m", ",", "a", "=", "1", ",", "b", "=", "1", " ",
                            "x", "=", "2", ".", "000000", " ", "1">>)

(* the entries joined by commas *)
RECURSIVE JoinComma(_)
JoinComma(pieces) ==
    IF pieces = <<>> THEN <<>>
    ELSE IF Len(pieces) = 1 THEN pieces[1]
    ELSE pieces[1] \o <<",">> \o JoinComma(Tail(pieces))

(* measurement,<tags> <fields> <timestamp> for the clock reading 1 s *)
WholeLine(arg) ==
    LET kt == SelectSeq(arg.tags.v, KeptTag)
        kf == SelectSeq(arg.fields.v, KeptField)
    IN  Text(arg.measurement.v) \o <<",">>
        \o JoinComma([k \in 1..Len(kt) |-> <<kt[k].name, "=", kt[k].value>>])
        \o <<" ">>
        \o JoinComma([k \in 1..Len(kf) |->
                         <<kf[k].name, "=">> \o Fmt_f(kf[k].value)])
        \o <<" ", "1">>

InvalidInputFails ==
    (call.fn = "influx_writer_line"
       /\ (call.arg.tags = NULL \/ call.arg.fields = NULL
             \/ call.arg.measurement = NULL))
    => (call.res.ret = NULL /\ call.res.errno # "unchanged")

NoPartialLine ==
    (call.fn = "influx_writer_line" /\ call.res.ret # NULL)
    => call.res.ret.v = WholeLine(call.arg)

(* C24: influx_writer_line returns NULL with errno set when the            *)
(* measurement is NULL or "" or when tags or fields is NULL, and whatever  *)
(* fails it returns NULL, never a line that lacks a part.                  *)
C24_FailsWithoutPartialLine ==
    /\ InvalidInputFails
    /\ (call.fn = "influx_writer_line" /\ call.arg.measurement = Ptr(""))
       => (call.res.ret = NULL /\ call.res.errno # "unchanged")
    /\ NoPartialLine

(* a digit string without its leading zeros: the number it reads as *)
RECURSIVE Canon(_)
Canon(ds) ==
    IF Len(ds) > 1 /\ ds[1] = "0" THEN Canon(Tail(ds)) ELSE ds

(* n in exactly k digits (n < 10^k) *)
RECURSIVE Padded(_, _)
Padded(n, k) ==
    IF k = 0 THEN <<>> ELSE Append(Padded(n \div 10, k - 1), DigitChar[(n % 10) + 1])

(* C28: for ms, us and ns the timestamp reads as                           *)
(* tv_sec * 10^k + floor(tv_nsec / 10^(9-k)), k = 3, 6, 9, the sub-second  *)
(* part in exactly k digits.                                               *)
C28_TimestampValue ==
    (call.fn = "influx_timestamp_precision" /\ call.res # NULL
       /\ call.arg.prec # INFLUX_PRECISION_S) =>
        LET k  == 3 * call.arg.prec
            ts == call.arg.ts
        IN  /\ Canon(call.res.v)
                 = Canon(Digits(ts.tv_sec)
                         \o Padded(ts.tv_nsec \div Divisor(call.arg.prec), k))
            /\ Len(call.res.v) = Len(Digits(ts.tv_sec)) + k


(***************************************************************************)
(* The upload of a request (influx.c): libcurl asks request_callback for   *)
(* the payload chunk by chunk.  upload.mem is the offset of the cursor in  *)
(* the payload, upload.len what is left behind it.                         *)
(***************************************************************************)
MaxPayload == 4

PayloadChars == <<"a", "b", "c", "d", "e", "f">>

(* a cursor whose offset stays where it was *)
ShrinkOnly(up, n) == [mem |-> up.mem, len |-> up.len - n]

(* 470-471: upload->mem += copylen; upload->len -= copylen *)
MoveCursor(up, n) == [mem |-> up.mem + n, len |-> up.len - n]

(* request_callback 445-476: the value returned, the bytes copied to dest  *)
(* and the cursor after the call                                           *)
request_callback(up, payload, size, leng) ==
    LET max == size * leng
    IN  IF max < 1 THEN [ret |-> 0, dest |-> <<>>, upload |-> up]
        ELSE IF up.len # 0
        THEN LET copylen == IF max > up.len THEN up.len ELSE max
             IN  [ret |-> copylen,
                  dest |-> SubSeq(payload, up.mem + 1, up.mem + copylen),
                  upload |-> MoveCursor(up, copylen)]
        ELSE [ret |-> 0, dest |-> <<>>, upload |-> up]

(* influx_http_post 531-535: req = {.len = strlen(lines), .mem = lines} *)
InitUpload ==
    /\ ProgramIdle /\ pc = "upload"
    /\ blocks = <<>> /\ field_list = NULL /\ compacted = NULL /\ hist = <<>>
    /\ \E n \in 0..MaxPayload :
         /\ data = Ptr(SubSeq(PayloadChars, 1, n))
         /\ upload = [mem |-> 0, len |-> n]

(* libcurl calls the read callback with room for size * leng bytes *)
CallRequestCallback ==
    /\ pc = "upload" /\ Len(hist) < MaxCalls
    /\ \E size \in 0..2 : \E leng \in 0..3 :
         LET r == request_callback(upload, data.v, size, leng)
         IN  /\ upload' = r.upload
             /\ call' = [fn |-> "request_callback",
                         arg |-> [size |-> size, leng |-> leng],
                         res |-> r.ret, dest |-> r.dest]
    /\ hist' = Append(hist, call')
    /\ UNCHANGED <<progVars, blocks, field_list, compacted>>

NextUpload == CallRequestCallback

SpecUpload == InitUpload /\ [][NextUpload]_vars

(* the bytes copied out by the calls, one after the other *)
RECURSIVE Copied(_)
Copied(h) == IF h = <<>> THEN <<>> ELSE Head(h).dest \o Copied(Tail(h))

(* C29: whatever capacities libcurl offers, the chunks copied are the      *)
(* payload from its start, in order and without overlap, none longer than  *)
(* the capacity offered; what was copied plus what is left is the payload  *)
(* length; after the whole payload every call returns 0; a call with       *)
(* capacity 0 returns 0 and leaves the cursor where it was.                *)
C29_UploadSlices ==
    pc = "upload" =>
        LET total == Len(Copied(hist))
        IN  /\ Copied(hist) = SubSeq(data.v, 1, total)
            /\ total <= Len(data.v)
            /\ total + upload.len = Len(data.v)
            /\ upload.mem = total
            /\ \A k \in 1..Len(hist) :
                 LET before == Len(Copied(SubSeq(hist, 1, k - 1)))
                 IN  /\ Len(hist[k].dest) = hist[k].res
                     /\ hist[k].res <= hist[k].arg.size * hist[k].arg.leng
                     /\ before = Len(data.v) => hist[k].res = 0
                     /\ hist[k].arg.size * hist[k].arg.leng = 0
                          => hist[k].res = 0

C29_Witness ==
    /\ pc = "upload" /\ data = Ptr(<<"a", "b", "c", "d">>)
    /\ Len(hist) = 4
    /\ hist[1].dest = <<"a">> /\ hist[2].res = 0 /\ hist[2].arg.leng = 0
    /\ hist[3].dest = <<"b", "c", "d">> /\ hist[3].arg.leng = 3
    /\ hist[3].arg.size = 2
    /\ hist[4].res = 0 /\ hist[4].arg.size = 1 /\ hist[4].arg.leng = 1


OnlyWholeLines(p) ==
    \A n \in 1..Len(LineTokens(p)) :
        \E dev \in Meters : \E e \in 1..3 :
            LineTokens(p)[n] = ExpectedLines(dev)[e]

(* no "(null)" stands in payload p where a line should be *)
NoPlaceholder(p) == p # NULL => \A n \in 1..Len(p.v) : p.v[n] # NullText

(* C26: when an allocation fails while the lines of a device are built,    *)
(* the payload has no line that lacks a field and no placeholder text in   *)
(* place of a line, and the conversion block does not crash the process.   *)
C26_ExhaustionAbandons ==
    /\ [](OnlyWholeLines(sent) /\ NoPlaceholder(sent))
    /\ [][pc = "convert" => pc' # "crashed"]_vars


(***************************************************************************)
(* The field list and its compact array released (influx.c), as main does  *)
(* after the conversion of a device: destroy the list, encode from the     *)
(* array, free the array.                                                  *)
(***************************************************************************)
(* the heap after free() of each address of fs, in order *)
RECURSIVE FreeAll(_, _)
FreeAll(h, fs) == IF fs = <<>> THEN h ELSE FreeAll(Free(h, Head(fs)), Tail(fs))

(* 813-823: the addresses freed by the loop of influx_field_list_destroy   *)
(* from element head on: the name, then the element                        *)
RECURSIVE DestroyLoop(_, _)
DestroyLoop(h, head) ==
    IF head = NULL THEN <<>>
    ELSE (IF h[head.v].f.name = NULL THEN <<>> ELSE <<h[head.v].f.name.v>>)
         \o <<head.v>> \o DestroyLoop(h, h[head.v].next)

(* influx_field_list_destroy 807-827: the addresses passed to free, in     *)
(* order (free(NULL) does nothing)                                         *)
FieldListDestroy(h, l) ==
    IF l = NULL THEN <<>> ELSE DestroyLoop(h, h[l.v].next) \o <<l.v>>

(* 838-842: the addresses freed by the loop of influx_field_compact_free   *)
RECURSIVE CompactFreeLoop(_, _, _)
CompactFreeLoop(h, arr, k) ==
    IF k > Len(h[arr].slots) \/ h[arr].slots[k] = NULL THEN <<>>
    ELSE LET fa == h[arr].slots[k].v
         IN  (IF h[fa].name = NULL THEN <<>> ELSE <<h[fa].name.v>>)
             \o <<fa>> \o CompactFreeLoop(h, arr, k + 1)

(* influx_field_compact_free 834-846: the addresses passed to free *)
FieldCompactFree(h, fields) ==
    IF fields = NULL THEN <<>> ELSE CompactFreeLoop(h, fields.v, 1) \o <<fields.v>>

(* influx_field_list_destroy(instant_fields); the pointer is not used      *)
(* again                                                                   *)
CallFieldListDestroy ==
    /\ pc = "fields"
    /\ LET fs == FieldListDestroy(blocks, field_list)
       IN  /\ blocks' = FreeAll(blocks, fs)
           /\ call' = [fn |-> "influx_field_list_destroy", arg |-> field_list,
                       res |-> fs]
    /\ field_list' = IF field_list = NULL THEN NULL ELSE DANGLING
    /\ pc' = "destroyed"
    /\ hist' = Append(hist, call')
    /\ UNCHANGED <<abi, timeVars, lines, meterVars, reads, writeVars, faults,
                   sessVars, compacted, upload>>

(* influx_field_compact_free(compact_instants) *)
CallFieldCompactFree ==
    /\ pc \in {"fields", "destroyed"}
    /\ compacted # DANGLING
    /\ \A k \in 1..Len(hist) : hist[k].fn # "influx_field_compact_free"
    /\ LET fs == FieldCompactFree(blocks, compacted)
       IN  /\ blocks' = FreeAll(blocks, fs)
           /\ call' = [fn |-> "influx_field_compact_free", arg |-> compacted,
                       res |-> fs]
    /\ compacted' = IF compacted = NULL THEN NULL ELSE DANGLING
    /\ hist' = Append(hist, call')
    /\ UNCHANGED <<progVars, field_list, upload>>

NextRelease ==
    \/ CallFieldListCreate
    \/ CallFieldListAppend
    \/ CallFieldListCompact
    \/ CallFieldListDestroy
    \/ CallFieldCompactFree

SpecRelease == InitFields /\ [][NextRelease]_vars

Live(p) == p # NULL /\ p # DANGLING

(* the blocks of a compact array: the array, its entries, their names *)
SnapshotBlocks(h, c) ==
    IF ~Live(c) THEN {}
    ELSE LET fs == {h[c.v].slots[k].v : k \in {j \in 1..Len(h[c.v].slots) :
                                                 h[c.v].slots[j] # NULL}}
         IN  {c.v} \cup fs
             \cup {h[fa].name.v : fa \in {x \in fs \cap DOMAIN h : h[x].name # NULL}}

(* the blocks of a list: the list, its elements, their names *)
ListBlocksOf(h, l) ==
    IF ~Live(l) THEN {}
    ELSE LET es == {Reach(h, h[l.v].next)[k] : k \in 1..Len(Reach(h, h[l.v].next))}
         IN  {l.v} \cup es \cup {h[e].f.name.v : e \in {x \in es : h[x].f.name # NULL}}

(* the call made by this step *)
Called(fn) == hist' # hist /\ call'.fn = fn

(* each address of fs is a block of set B, freed once, and nothing else    *)
(* of the heap changes                                                     *)
ReleasesExactly(fs, B) ==
    /\ \A j, k \in 1..Len(fs) : fs[j] = fs[k] => j = k
    /\ {fs[k] : k \in 1..Len(fs)} = B
    /\ B \subseteq DOMAIN blocks
    /\ DOMAIN blocks' = DOMAIN blocks \ B
    /\ \A a \in DOMAIN blocks' : blocks'[a] = blocks[a]

(* C31: influx_field_list_compact changes no block of the list; the array  *)
(* it returns shares no block with the list and keeps the names and values *)
(* of the appends made before it, through later appends and the destroy    *)
(* of the list; influx_field_compact_free frees each block of the array    *)
(* once and no block of the list, and influx_field_list_destroy each block *)
(* of the list once and no block of the array.                             *)
C31_SnapshotIndependent ==
    /\ [](Live(compacted) =>
            /\ SnapshotBlocks(blocks, compacted) \subseteq DOMAIN blocks
            /\ SnapshotBlocks(blocks, compacted)
                 \cap ListBlocksOf(blocks, field_list) = {}
            /\ Entries(blocks, compacted.v, 1) = Appended(BeforeCompact(hist)))
    /\ [][/\ Called("influx_field_list_compact") =>
               \A a \in DOMAIN blocks :
                   a \in DOMAIN blocks' /\ blocks'[a] = blocks[a]
          /\ Called("influx_field_compact_free") =>
               ReleasesExactly(call'.res, SnapshotBlocks(blocks, compacted))
          /\ Called("influx_field_list_destroy") =>
               ReleasesExactly(call'.res, ListBlocksOf(blocks, field_list))]_vars

C31_Witness ==
    /\ pc = "destroyed"
    /\ call.fn = "influx_field_compact_free" /\ Len(call.res) = 5
    /\ hist[Len(hist) - 1].fn = "influx_field_list_destroy"
    /\ Len(hist[Len(hist) - 1].res) = 5
    /\ Appended(hist) = <<[name |-> "a", value |-> 1], [name |-> "b", value |-> 2]>>
    /\ blocks = <<>>


(***************************************************************************)
(* ts_diff as the loop uses it.                                            *)
(***************************************************************************)
(* the total of nanoseconds of a - b and the product before it fit a long *)
DiffInRange(a, b) ==
    /\ LongFits(NSEC_PER_SEC * (a.tv_sec - b.tv_sec))
    /\ LongFits(NSEC_PER_SEC * (a.tv_sec - b.tv_sec) + (a.tv_nsec - b.tv_nsec))

(* r is a - b: the same value, and both parts with its sign *)
ExactDiff(r, a, b) ==
    /\ Ticks(r) = Ticks(a) - Ticks(b)
    /\ Ticks(a) >= Ticks(b) => (r.tv_sec >= 0 /\ r.tv_nsec >= 0)
    /\ Ticks(a) <= Ticks(b) => (r.tv_sec <= 0 /\ r.tv_nsec <= 0)

(* C32: where the loop has called ts_diff(ts_next, now), in increment_time *)
(* and before the sleep, the pair returned is the exact difference with    *)
(* its sign, and the total of nanoseconds did not leave the range of long, *)
(* with a 64-bit and with a 32-bit long.                                   *)
C32_DiffExactInRange ==
    /\ pc = "inc_loop" => (ExactDiff(d, ts_next, now) /\ DiffInRange(ts_next, now))
    /\ pc = "sleep" => (ExactDiff(diff, ts_next, now) /\ DiffInRange(ts_next, now))

=============================================================================
